---- MODULE Spec2Model ----
(***************************************************************************)
(* State-machine model of the job scheduler of fileProcessor               *)
(* (backend/src/services/queue/jobQueue.js) together with the processing   *)
(* pipeline it drives (FileService.processFile in s3.service.js).          *)
(*                                                                         *)
(* Node.js runs every handler on one thread, so a handler is atomic from   *)
(* one `await` to the next.  Each awaited store operation is therefore     *)
(* modelled by the step at which the store applies it, and the code that   *)
(* runs after the await is a separate step whenever it touches memory that *)
(* other handlers read (activeJobs, degradedMode, the job document shared  *)
(* by handleJobError and an executeJob abandoned by the timeout).          *)
(*                                                                         *)
(* The batching of one stream (StreamProcessor.processStream) is modelled  *)
(* on its own, with the sink and the line parser as the environment.       *)
(*                                                                         *)
(* Document.save() is modelled as mongoose performs it: it writes the      *)
(* paths assigned since the document was loaded or last saved, and a       *)
(* save() issued while another save() of the same document is in flight    *)
(* throws (ParallelSaveError).                                             *)
(***************************************************************************)
EXTENDS Naturals, Integers, Sequences, FiniteSets, TLC

\* ---------------------------------------------------------------- bounds
MaxJobs == 2
SoloJobs == 1
NumFiles == 1
MaxPriority == 1
MaxTimeouts == 1
MaxRestarts == 1
MaxSelect == 4
MaxOverlap == 1
MaxLines == 4
MaxBatchSize == 3
MaxSaves == 3
PipedLines == 2
PipedBatch == 2

\* ------------------------------------------------------ program constants
maxConcurrentJobs == 1
retryAttempts == 3
errorLimit == 100

JobIds == 1..(IF MaxJobs > SoloJobs THEN MaxJobs ELSE SoloJobs)
Slots == 1..(MaxOverlap + 1)
FileIds == 1..NumFiles
Priorities == 0..MaxPriority

VARIABLES
  jobs,          \* persisted Job collection: JobIds -> document ("none" = not stored)
  files,         \* persisted File collection: FileIds -> status
  processedAt,   \* persisted File collection: FileIds -> whether processedAt is set
  activeJobs,    \* this.activeJobs: keys of the Map in insertion order
  processing,    \* this.processing (the interval is armed exactly when TRUE)
  degradedMode,  \* this.degradedMode
  phase,         \* life cycle of the instance: constructed / initializing / running / dead
  startTimer,    \* the setTimeout(startProcessing, 5000) of initialize is armed
  immediates,    \* number of armed setImmediate(processNext)
  retryTimers,   \* number of armed setTimeout(processNext, 2000)
  inv,           \* processNext invocations with their executeJob: Slots -> record
  add,           \* the addJob call in flight
  nextId,        \* Date.now() as the next stored job document gets it (jobId, createdAt)
  sd,            \* position of shutdown()
  sdPos,         \* number of Map entries the shutdown iterator has passed
  sdCur,         \* jobId of the updateOne shutdown is awaiting
  stuckJobs,     \* initialize: the stuck jobs still to be saved
  skipped,       \* history: jobs in status processing the running initialize left alone
  sdActive,      \* history: keys of activeJobs when the grace period of shutdown expired
  lastRet,       \* outcome of the addJob call that settled last
  hist,          \* history: persisted status sequence of each job
  outs,          \* history: outcome of each settled race of a job, in order
  execs,         \* history: number of executeJob calls per job
  nTimeouts,     \* number of timeouts fired (bounded by MaxTimeouts)
  nRestarts,     \* number of process restarts (bounded by MaxRestarts)
  nOverlap,      \* number of selections made while another job was held
  nSelect,       \* number of findOne calls that returned a job
  cap,           \* the scenario explored: what the environment may do, and how often
  batchSize,     \* processStream: this.batchSize (0 = no stream is being processed)
  batch,         \* processStream: batch, the records as their line numbers
  lineNumber,    \* processStream: lineNumber
  processedCount, \* processStream: processedCount
  failedCount,   \* processStream: failedCount
  errors,        \* processStream: errors
  batchTimer,    \* processStream: the timeout held by batchTimer is armed
  rlPaused,      \* readline: rl.pause() in effect
  rlClosed,      \* readline: 'close' has been emitted
  chunk,         \* readline: lines of the chunk in hand still to be emitted
  flushes,       \* flushBatch calls awaiting batchProcessor(currentBatch)
  result,        \* what the promise returned by processStream has settled to
  nonBlank,      \* history: number of non-blank lines emitted
  parsed,        \* history: line numbers of the records the parser returned
  handed,        \* history: the batches handed to the sink, in order
  rejected,      \* history: the batches the sink rejected
  idleFlushes,   \* history: number of batches the idle timer flushed
  armedAt,       \* history: the line at which scheduleBatchFlush last set the timer
  delivered,     \* history: number of lines the input has delivered
  accepted,      \* history: the batches the sink accepted
  reader,        \* the slot whose processFile called processStream (0 = none)
  returned,      \* per slot: what processStream returned to processFile
  jobResult,     \* per job: the result stored with the job document
  pendingAtDegrade, \* history: the jobs that were pending when degradedMode was set
  fileData,      \* persisted FileData collection: number of documents per (fileId, lineNumber)
  lastSave,      \* how the saveBatch call that settled last ended
  nSaves         \* number of saveBatch calls made (bounded by MaxSaves)

vars == << jobs, files, processedAt, activeJobs, processing, degradedMode, phase, startTimer,
           immediates, retryTimers, inv, add, nextId, sd, sdPos, sdCur, stuckJobs,
           skipped, sdActive, lastRet, hist, outs, execs, nTimeouts, nRestarts, nOverlap, nSelect, cap,
           batchSize, batch, lineNumber, processedCount, failedCount, errors,
           batchTimer, rlPaused, rlClosed, chunk, flushes, result, nonBlank,
           parsed, handed, rejected, idleFlushes, armedAt, delivered,
           accepted, reader, returned, jobResult, pendingAtDegrade, fileData,
           lastSave, nSaves >>

\* ---------------------------------------------------------------- errors
\* Errors the store can raise on a write.
QuotaByCode == [code |-> 8000, codeName |-> "AtlasError", message |-> "quota"]
QuotaByMessage == [code |-> 0, codeName |-> "MongoServerError",
                   message |-> "you are over your space quota"]
OtherAtlas == [code |-> 8000, codeName |-> "Unauthorized", message |-> "not allowed"]
NetworkError == [code |-> 0, codeName |-> "MongoNetworkError", message |-> "connection closed"]
StoreErrors == {QuotaByCode, QuotaByMessage, OtherAtlas, NetworkError}
\* Outcome of a store operation that succeeds.
Ok == [code |-> 0, codeName |-> "ok", message |-> "ok"]
StoreOutcomes == {Ok} \cup StoreErrors
\* What the store may answer in the scenario explored.
Outcomes == IF cap.faults THEN StoreOutcomes ELSE {Ok}

\* error.message.includes('space quota')
IncludesSpaceQuota(m) == m \in {"you are over your space quota"}

\* Variant: only the error code is looked at.
isQuotaError_CodeOnly(e) ==
  e.code = 8000 /\ e.codeName = "AtlasError"

isQuotaError(e) ==
  \/ (e.code = 8000 /\ e.codeName = "AtlasError")
  \/ IncludesSpaceQuota(e.message)

Unavailable503 == [kind |-> "unavailable", statusCode |-> 503]

\* ------------------------------------------------------------- documents
NoJob == [status |-> "none", priority |-> 0, attempts |-> 0, fileId |-> 0,
          createdAt |-> 0, result |-> FALSE, error |-> "none",
          startedAt |-> FALSE, completedAt |-> FALSE]

\* new Job({jobId, fileId, status: 'pending', priority, maxAttempts}) with the
\* schema defaults of job.model.js
NewJob(id, f, p) ==
  [status |-> "pending", priority |-> p, attempts |-> 0, fileId |-> f,
   createdAt |-> id, result |-> FALSE, error |-> "none",
   startedAt |-> FALSE, completedAt |-> FALSE]

maxAttempts(j) == retryAttempts

IdleInv == [pn |-> "idle", ex |-> "none", job |-> 0, att |-> 0,
            dErr |-> FALSE, carry |-> FALSE, err |-> "none"]
IdleAdd == [pc |-> "idle", id |-> 0, fileId |-> 0, priority |-> 0, err |-> Ok]

\* ------------------------------------------------------------- histories
SetStatus(h, j, s) ==
  IF h[j] # << >> /\ h[j][Len(h[j])] = s THEN h ELSE [h EXCEPT ![j] = Append(@, s)]

\* ------------------------------------------------------------------ Init
Unsettled == [state |-> "pending", processed |-> 0, failed |-> 0, errors |-> 0]

\* The locals of processStream as it declares them, for batch size n.
StreamInit(n) ==
  /\ batchSize = n
  /\ batch = << >>
  /\ lineNumber = 0
  /\ processedCount = 0
  /\ failedCount = 0
  /\ errors = << >>
  /\ batchTimer = FALSE
  /\ rlPaused = FALSE
  /\ rlClosed = FALSE
  /\ chunk = 0
  /\ flushes = {}
  /\ result = Unsettled
  /\ nonBlank = 0
  /\ parsed = {}
  /\ handed = << >>
  /\ rejected = {}
  /\ idleFlushes = 0
  /\ armedAt = 0
  /\ delivered = 0
  /\ accepted = {}

\* The queue after `new JobQueue()` (constructor) with an empty store, in
\* scenario c.
Constructed(c) ==
  /\ cap = c
  /\ jobs = [j \in JobIds |-> NoJob]
  /\ files = [f \in FileIds |-> "uploaded"]
  /\ processedAt = [f \in FileIds |-> FALSE]
  /\ activeJobs = << >>
  /\ processing = FALSE
  /\ degradedMode = FALSE
  /\ phase = "constructed"
  /\ startTimer = FALSE
  /\ immediates = 0
  /\ retryTimers = 0
  /\ inv = [s \in Slots |-> IdleInv]
  /\ add = IdleAdd
  /\ nextId = 1
  /\ sd = "none"
  /\ sdPos = 0
  /\ sdCur = 0
  /\ stuckJobs = {}
  /\ skipped = {}
  /\ sdActive = {}
  /\ pendingAtDegrade = {}
  /\ reader = 0
  /\ returned = [s \in Slots |-> Unsettled]
  /\ jobResult = [j \in JobIds |-> Unsettled]
  /\ lastRet = [kind |-> "none"]
  /\ hist = [j \in JobIds |-> << >>]
  /\ outs = [j \in JobIds |-> << >>]
  /\ execs = [j \in JobIds |-> 0]
  /\ nTimeouts = 0
  /\ nRestarts = 0
  /\ nSelect = 0
  /\ nOverlap = 0
  /\ fileData = [f \in FileIds |-> [n \in 1..MaxLines |-> 0]]
  /\ lastSave = "none"
  /\ nSaves = 0

\* The queue as constructed, no stream being processed.
InitIn(c) == Constructed(c) /\ StreamInit(0)

\* ------------------------------------------------------------ processNext
\* Job.findOne({status: 'pending'})
Pending == {j \in JobIds : jobs[j].status = "pending"}

\* A slot is free when neither a processNext invocation nor an executeJob it
\* started (possibly abandoned by the timeout) occupies it.  The scenario has
\* one slot, and one more for each selection that may overlap another.
Free(i, s) == s <= cap.overlaps + 1 /\ i[s].pn = "idle" /\ i[s].ex = "none"
HasFree(i) == \E s \in Slots : Free(i, s)
FreeSlot(i) == CHOOSE s \in Slots : Free(i, s) /\ \A t \in Slots : Free(i, t) => s <= t

\* processNext up to its first await: the ceiling check, then findOne is issued.
Ceiling(a) == Len(a) >= maxConcurrentJobs
\* Variant: processNext returns at once in degraded mode.
CallProcessNext_IdleWhenDegraded ==
  IF degradedMode \/ Ceiling(activeJobs)
    THEN UNCHANGED inv
    ELSE /\ HasFree(inv)
         /\ inv' = [inv EXCEPT ![FreeSlot(inv)] = [IdleInv EXCEPT !.pn = "find"]]

CallProcessNext ==
  IF Ceiling(activeJobs)
    THEN UNCHANGED inv
    ELSE /\ HasFree(inv)
         /\ inv' = [inv EXCEPT ![FreeSlot(inv)] = [IdleInv EXCEPT !.pn = "find"]]

\* ------------------------------------------------------------- initialize
Stuck == {j \in JobIds : jobs[j].status = "processing"}

\* Job.find({status: 'processing'}) settles; with no stuck job the loop body
\* never runs and the start timer is armed at once.
InitializeFind(o) ==
  /\ o \in Outcomes
  /\ phase = "constructed"
  /\ IF o = Ok
       THEN /\ stuckJobs' = Stuck
            /\ skipped' = {}
            /\ phase' = IF Stuck = {} THEN "running" ELSE "initializing"
            /\ startTimer' = (Stuck = {})
            /\ UNCHANGED << degradedMode, pendingAtDegrade >>
       ELSE /\ stuckJobs' = {}
            /\ skipped' = Stuck
            /\ IF isQuotaError(o)
                 THEN /\ degradedMode' = TRUE /\ startTimer' = TRUE /\ phase' = "running"
                      /\ pendingAtDegrade' = Pending
                 ELSE UNCHANGED << degradedMode, startTimer, pendingAtDegrade >> /\ phase' = "dead"
  /\ UNCHANGED << jobs, files, processedAt, activeJobs, processing, immediates,
                  retryTimers, inv, add, nextId, sd, sdPos, sdCur, sdActive,
                  lastRet, hist, outs, execs, nTimeouts, nRestarts, nOverlap,
                  nSelect, cap, batchSize, batch, lineNumber, processedCount,
                  failedCount, errors, batchTimer, rlPaused, rlClosed, chunk,
                  flushes, result, nonBlank, parsed, handed, rejected,
                  idleFlushes, armedAt, delivered, accepted, reader, returned,
                  jobResult, fileData, lastSave, nSaves >>

RestartMessage == "Job was interrupted by server restart - marked as failed to prevent crash loop"

\* Variant: a stuck job is put back in the queue.
InitializeSaveStuck_ResetsPending(o) ==
  /\ o \in Outcomes
  /\ phase = "initializing"
  /\ stuckJobs # {}
  /\ LET j == CHOOSE k \in stuckJobs : \A m \in stuckJobs : k <= m
         rest == stuckJobs \ {j}
         thrown == o # Ok /\ ~isQuotaError(o)
     IN /\ stuckJobs' = IF thrown THEN {} ELSE rest
        /\ skipped' = IF o = Ok THEN skipped ELSE skipped \cup {j}
        /\ IF o = Ok
             THEN /\ jobs' = [jobs EXCEPT ![j].status = "pending"]
                  /\ hist' = SetStatus(hist, j, "pending")
             ELSE UNCHANGED << jobs, hist >>
        /\ phase' = IF thrown THEN "dead"
                    ELSE IF rest = {} THEN "running" ELSE "initializing"
        /\ startTimer' = (~thrown /\ rest = {})
  /\ UNCHANGED << files, processedAt, activeJobs, processing, degradedMode,
                  immediates, retryTimers, inv, add, nextId, sd, sdPos, sdCur,
                  sdActive, lastRet, outs, execs, nTimeouts, nRestarts, nOverlap,
                  nSelect, cap, batchSize, batch, lineNumber, processedCount,
                  failedCount, errors, batchTimer, rlPaused, rlClosed, chunk,
                  flushes, result, nonBlank, parsed, handed, rejected,
                  idleFlushes, armedAt, delivered, accepted, reader, returned,
                  jobResult, pendingAtDegrade, fileData, lastSave, nSaves >>

\* One pass of the loop over stuckJobs: job.save() of the next stuck job
\* settles.  A save refused for quota is logged and the loop goes on; any
\* other error ends initialize.
InitializeSaveStuck(o) ==
  /\ o \in Outcomes
  /\ phase = "initializing"
  /\ stuckJobs # {}
  /\ LET j == CHOOSE k \in stuckJobs : \A m \in stuckJobs : k <= m
         rest == stuckJobs \ {j}
         thrown == o # Ok /\ ~isQuotaError(o)
     IN /\ stuckJobs' = IF thrown THEN {} ELSE rest
        /\ skipped' = IF o = Ok THEN skipped ELSE skipped \cup {j}
        /\ IF o = Ok
             THEN /\ jobs' = [jobs EXCEPT ![j].status = "failed",
                                          ![j].error = RestartMessage,
                                          ![j].completedAt = TRUE]
                  /\ hist' = SetStatus(hist, j, "failed")
             ELSE UNCHANGED << jobs, hist >>
        /\ phase' = IF thrown THEN "dead"
                    ELSE IF rest = {} THEN "running" ELSE "initializing"
        /\ startTimer' = (~thrown /\ rest = {})
  /\ UNCHANGED << files, processedAt, activeJobs, processing, degradedMode,
                  immediates, retryTimers, inv, add, nextId, sd, sdPos, sdCur,
                  sdActive, lastRet, outs, execs, nTimeouts, nRestarts, nOverlap,
                  nSelect, cap, batchSize, batch, lineNumber, processedCount,
                  failedCount, errors, batchTimer, rlPaused, rlClosed, chunk,
                  flushes, result, nonBlank, parsed, handed, rejected,
                  idleFlushes, armedAt, delivered, accepted, reader, returned,
                  jobResult, pendingAtDegrade, fileData, lastSave, nSaves >>

\* The timer armed by initialize fires: startProcessing().
StartProcessing ==
  /\ startTimer
  /\ startTimer' = FALSE
  /\ processing' = TRUE
  /\ UNCHANGED << jobs, files, processedAt, activeJobs, degradedMode, phase,
                  immediates, retryTimers, inv, add, nextId, sd, sdPos, sdCur,
                  stuckJobs, skipped, sdActive, lastRet, hist, outs, execs,
                  nTimeouts, nRestarts, nOverlap, nSelect, cap, batchSize, batch,
                  lineNumber, processedCount, failedCount, errors, batchTimer,
                  rlPaused, rlClosed, chunk, flushes, result, nonBlank, parsed,
                  handed, rejected, idleFlushes, armedAt, delivered, accepted,
                  reader, returned, jobResult, pendingAtDegrade, fileData,
                  lastSave, nSaves >>

\* ----------------------------------------------------------------- addJob
\* File ids are interchangeable: a call names a file that a stored job refers
\* to, or the first file that none refers to.
UsedFiles == {jobs[j].fileId : j \in {k \in JobIds : jobs[k].status # "none"}}
FirstUse(f) == \A g \in FileIds : g < f => g \in UsedFiles

\* Variant: addJob without the test of degradedMode.
AddJobCall_Unguarded(f, p) ==
  /\ p <= cap.priority
  /\ FirstUse(f)
  /\ phase = "running"
  /\ sd = "none"
  /\ add.pc = "idle"
  /\ nextId <= cap.jobs \/ cap.faults \/ degradedMode
  /\ add' = [pc |-> "save", id |-> nextId, fileId |-> f, priority |-> p, err |-> Ok]
  /\ lastRet' = [kind |-> "none"]
  /\ UNCHANGED << jobs, files, processedAt, activeJobs, processing, degradedMode,
                  phase, startTimer, immediates, retryTimers, inv, nextId, sd,
                  sdPos, sdCur, stuckJobs, skipped, sdActive, hist, outs, execs,
                  nTimeouts, nRestarts, nOverlap, nSelect, cap, batchSize, batch,
                  lineNumber, processedCount, failedCount, errors, batchTimer,
                  rlPaused, rlClosed, chunk, flushes, result, nonBlank, parsed,
                  handed, rejected, idleFlushes, armedAt, delivered, accepted,
                  reader, returned, jobResult, pendingAtDegrade, fileData,
                  lastSave, nSaves >>

\* addJob up to its first await: in degraded mode it throws at once, otherwise
\* the new document is built and job.save() is issued.  The HTTP server
\* listens only after initialize has returned and is closed before shutdown()
\* is called.
AddJobCall(f, p) ==
  /\ p <= cap.priority
  /\ FirstUse(f)
  /\ phase = "running"
  /\ sd = "none"
  /\ add.pc = "idle"
  /\ nextId <= cap.jobs \/ cap.faults \/ degradedMode
  /\ add' = [pc |-> IF degradedMode THEN "rejected" ELSE "save", id |-> nextId,
             fileId |-> f, priority |-> p, err |-> Ok]
  /\ lastRet' = [kind |-> "none"]
  /\ UNCHANGED << jobs, files, processedAt, activeJobs, processing, degradedMode,
                  phase, startTimer, immediates, retryTimers, inv, nextId, sd,
                  sdPos, sdCur, stuckJobs, skipped, sdActive, hist, outs, execs,
                  nTimeouts, nRestarts, nOverlap, nSelect, cap, batchSize, batch,
                  lineNumber, processedCount, failedCount, errors, batchTimer,
                  rlPaused, rlClosed, chunk, flushes, result, nonBlank, parsed,
                  handed, rejected, idleFlushes, armedAt, delivered, accepted,
                  reader, returned, jobResult, pendingAtDegrade, fileData,
                  lastSave, nSaves >>

\* The store applies or refuses the insert of the new job document.
AddJobSave(o) ==
  /\ o \in Outcomes
  /\ add.pc = "save"
  /\ IF o = Ok
       THEN /\ add.id <= cap.jobs
            /\ jobs' = [jobs EXCEPT ![add.id] = NewJob(add.id, add.fileId, add.priority)]
            /\ hist' = SetStatus(hist, add.id, "pending")
            /\ nextId' = nextId + 1
            /\ add' = [add EXCEPT !.pc = "saved"]
       ELSE /\ add' = [add EXCEPT !.pc = "failed", !.err = o]
            /\ UNCHANGED << jobs, hist, nextId >>
  /\ UNCHANGED << files, processedAt, activeJobs, processing, degradedMode, phase,
                  startTimer, immediates, retryTimers, inv, sd, sdPos, sdCur,
                  stuckJobs, skipped, sdActive, lastRet, outs, execs, nTimeouts,
                  nRestarts, nOverlap, nSelect, cap, batchSize, batch, lineNumber,
                  processedCount, failedCount, errors, batchTimer, rlPaused,
                  rlClosed, chunk, flushes, result, nonBlank, parsed, handed,
                  rejected, idleFlushes, armedAt, delivered, accepted, reader,
                  returned, jobResult, pendingAtDegrade, fileData, lastSave,
                  nSaves >>

\* The caller of addJob gets its answer.  After a successful save this is the
\* code after `await job.save()`: processNext() is called without being
\* awaited and the descriptor is returned.  After a failed save it is the
\* catch block, and after the throw in degraded mode the rejection itself.
AddJobReturn ==
  /\ add.pc \in {"saved", "failed", "rejected"}
  /\ IF add.pc = "saved"
       THEN /\ CallProcessNext
            /\ lastRet' = [kind |-> "ok", jobId |-> add.id, fileId |-> add.fileId,
                           status |-> "pending"]
            /\ UNCHANGED << degradedMode, pendingAtDegrade >>
       ELSE /\ IF add.pc = "rejected"
                 THEN UNCHANGED << degradedMode, pendingAtDegrade >> /\ lastRet' = Unavailable503
                 ELSE IF isQuotaError(add.err)
                        THEN /\ degradedMode' = TRUE /\ lastRet' = Unavailable503
                             /\ pendingAtDegrade' = Pending
                        ELSE /\ UNCHANGED << degradedMode, pendingAtDegrade >>
                             /\ lastRet' = [kind |-> "error", error |-> add.err]
            /\ UNCHANGED inv
  /\ add' = IdleAdd
  /\ UNCHANGED << jobs, files, processedAt, activeJobs, processing, phase,
                  startTimer, immediates, retryTimers, nextId, sd, sdPos, sdCur,
                  stuckJobs, skipped, sdActive, hist, outs, execs, nTimeouts,
                  nRestarts, nOverlap, nSelect, cap, batchSize, batch, lineNumber,
                  processedCount, failedCount, errors, batchTimer, rlPaused,
                  rlClosed, chunk, flushes, result, nonBlank, parsed, handed,
                  rejected, idleFlushes, armedAt, delivered, accepted, reader,
                  returned, jobResult, fileData, lastSave, nSaves >>

\* ------------------------------------------------------ control-loop ticks
\* The setInterval callback of startProcessing.
Tick ==
  /\ processing
  /\ CallProcessNext
  /\ UNCHANGED << jobs, files, processedAt, activeJobs, processing, degradedMode,
                  phase, startTimer, immediates, retryTimers, add, nextId, sd,
                  sdPos, sdCur, stuckJobs, skipped, sdActive, lastRet, hist, outs,
                  execs, nTimeouts, nRestarts, nOverlap, nSelect, cap, batchSize,
                  batch, lineNumber, processedCount, failedCount, errors,
                  batchTimer, rlPaused, rlClosed, chunk, flushes, result,
                  nonBlank, parsed, handed, rejected, idleFlushes, armedAt,
                  delivered, accepted, reader, returned, jobResult,
                  pendingAtDegrade, fileData, lastSave, nSaves >>

\* The setImmediate callback armed by the finally block of processNext.
Immediate ==
  /\ immediates > 0
  /\ immediates' = immediates - 1
  /\ CallProcessNext
  /\ UNCHANGED << jobs, files, processedAt, activeJobs, processing, degradedMode,
                  phase, startTimer, retryTimers, add, nextId, sd, sdPos, sdCur,
                  stuckJobs, skipped, sdActive, lastRet, hist, outs, execs,
                  nTimeouts, nRestarts, nOverlap, nSelect, cap, batchSize, batch,
                  lineNumber, processedCount, failedCount, errors, batchTimer,
                  rlPaused, rlClosed, chunk, flushes, result, nonBlank, parsed,
                  handed, rejected, idleFlushes, armedAt, delivered, accepted,
                  reader, returned, jobResult, pendingAtDegrade, fileData,
                  lastSave, nSaves >>

\* The setTimeout callback armed by the outer catch block of processNext.
RetryTimer ==
  /\ retryTimers > 0
  /\ retryTimers' = retryTimers - 1
  /\ CallProcessNext
  /\ UNCHANGED << jobs, files, processedAt, activeJobs, processing, degradedMode,
                  phase, startTimer, immediates, add, nextId, sd, sdPos, sdCur,
                  stuckJobs, skipped, sdActive, lastRet, hist, outs, execs,
                  nTimeouts, nRestarts, nOverlap, nSelect, cap, batchSize, batch,
                  lineNumber, processedCount, failedCount, errors, batchTimer,
                  rlPaused, rlClosed, chunk, flushes, result, nonBlank, parsed,
                  handed, rejected, idleFlushes, armedAt, delivered, accepted,
                  reader, returned, jobResult, pendingAtDegrade, fileData,
                  lastSave, nSaves >>

\* .sort({priority: -1, createdAt: 1})
\* Variant: sort({createdAt: 1}) alone.
SortsBefore_CreatedAtOnly(a, b) ==
  jobs[a].createdAt < jobs[b].createdAt

SortsBefore(a, b) ==
  \/ jobs[a].priority > jobs[b].priority
  \/ jobs[a].priority = jobs[b].priority /\ jobs[a].createdAt < jobs[b].createdAt
FindOnePending == CHOOSE j \in Pending : \A k \in Pending \ {j} : SortsBefore(j, k)

\* activeJobs.set(jobId, job): a key already in the Map keeps its position.
InMap(a, j) == \E n \in 1..Len(a) : a[n] = j
MapSet(a, j) == IF InMap(a, j) THEN a ELSE Append(a, j)
\* activeJobs.delete(jobId)
MapDelete(a, j) == SelectSeq(a, LAMBDA x : x # j)
IndexOf(a, j) == CHOOSE n \in 1..Len(a) : a[n] = j
\* The shutdown iterator is live: deleting an entry it has passed moves it back.
PosAfterDelete(a, j) ==
  IF sdPos > 0 /\ InMap(a, j) /\ IndexOf(a, j) <= sdPos THEN sdPos - 1 ELSE sdPos

\* Another invocation holds a job, or an abandoned executeJob is running.
Overlaps(s) == \E t \in Slots \ {s} : inv[t].pn \notin {"idle", "find"} \/ inv[t].ex # "none"

\* findOne settles: no pending job ends the invocation, otherwise the loaded
\* document is marked processing in memory and job.save() is issued.
PNFind(s) ==
  /\ inv[s].pn = "find"
  /\ IF Pending = {}
       THEN inv' = [inv EXCEPT ![s] = IdleInv] /\ UNCHANGED << nSelect, nOverlap >>
       ELSE /\ nSelect < cap.selects
            /\ nSelect' = nSelect + 1
            /\ IF Overlaps(s)
                 THEN nOverlap < cap.overlaps /\ nOverlap' = nOverlap + 1
                 ELSE UNCHANGED nOverlap
            /\ inv' = [inv EXCEPT ![s].pn = "mark", ![s].job = FindOnePending,
                                    ![s].att = jobs[FindOnePending].attempts]
  /\ UNCHANGED << jobs, files, processedAt, activeJobs, processing, degradedMode,
                  phase, startTimer, immediates, retryTimers, add, nextId, sd,
                  sdPos, sdCur, stuckJobs, skipped, sdActive, lastRet, hist, outs,
                  execs, nTimeouts, nRestarts, cap, batchSize, batch, lineNumber,
                  processedCount, failedCount, errors, batchTimer, rlPaused,
                  rlClosed, chunk, flushes, result, nonBlank, parsed, handed,
                  rejected, idleFlushes, armedAt, delivered, accepted, reader,
                  returned, jobResult, pendingAtDegrade, fileData, lastSave,
                  nSaves >>

\* The store applies the save of status 'processing' and startedAt.
PNMark(s) ==
  /\ inv[s].pn = "mark"
  /\ jobs' = [jobs EXCEPT ![inv[s].job].status = "processing",
                          ![inv[s].job].startedAt = TRUE]
  /\ hist' = SetStatus(hist, inv[s].job, "processing")
  /\ inv' = [inv EXCEPT ![s].pn = "marked"]
  /\ UNCHANGED << files, processedAt, activeJobs, processing, degradedMode, phase,
                  startTimer, immediates, retryTimers, add, nextId, sd, sdPos,
                  sdCur, stuckJobs, skipped, sdActive, lastRet, outs, execs,
                  nTimeouts, nRestarts, nOverlap, nSelect, cap, batchSize, batch,
                  lineNumber, processedCount, failedCount, errors, batchTimer,
                  rlPaused, rlClosed, chunk, flushes, result, nonBlank, parsed,
                  handed, rejected, idleFlushes, armedAt, delivered, accepted,
                  reader, returned, jobResult, pendingAtDegrade, fileData,
                  lastSave, nSaves >>

\* After the save: activeJobs.set, the timeout is armed and executeJob runs
\* up to the File.findOne of processFile.
PNAdmit(s) ==
  /\ inv[s].pn = "marked"
  /\ activeJobs' = MapSet(activeJobs, inv[s].job)
  /\ inv' = [inv EXCEPT ![s].pn = "race", ![s].ex = "fileFind"]
  /\ execs' = [execs EXCEPT ![inv[s].job] = @ + 1]
  /\ UNCHANGED << jobs, files, processedAt, processing, degradedMode, phase,
                  startTimer, immediates, retryTimers, add, nextId, sd, sdPos,
                  sdCur, stuckJobs, skipped, sdActive, lastRet, hist, outs,
                  nTimeouts, nRestarts, nOverlap, nSelect, cap, batchSize, batch,
                  lineNumber, processedCount, failedCount, errors, batchTimer,
                  rlPaused, rlClosed, chunk, flushes, result, nonBlank, parsed,
                  handed, rejected, idleFlushes, armedAt, delivered, accepted,
                  reader, returned, jobResult, pendingAtDegrade, fileData,
                  lastSave, nSaves >>

\* ------------------------------------------------- settling of the race
\* A save() of the document is in flight.
ExSaving(r) == r.ex \in {"jobSave", "jobSaved"}
ErrSaving(r) == r.pn \in {"errSave", "errSaved"}

\* The finally block of processNext: the slot record after it.  The slot stays
\* occupied while an abandoned executeJob is still running in it.
AfterFinally(r) ==
  IF r.ex = "none" THEN IdleInv ELSE [r EXCEPT !.pn = "gone"]

\* handleJobError up to its first await, run by the catch block of processNext
\* on the slot record r (whose ex field already tells what executeJob does).
\* Result: the new slot record, and whether handleJobError threw.
HandleJobError(r, msg) ==
  LET n == r.att + 1
      r1 == [r EXCEPT !.att = n, !.err = msg, !.dErr = TRUE]
  IN IF n >= maxAttempts(r.job)
       THEN [rec |-> [r1 EXCEPT !.pn = "errFile"], threw |-> FALSE]
       ELSE IF ExSaving(r)
              THEN [rec |-> AfterFinally(r1), threw |-> TRUE]
              ELSE [rec |-> [r1 EXCEPT !.pn = "errSave"], threw |-> FALSE]

\* Variant: the entry is deleted after handleJobError, not in a finally block.
Finally_SkippedOnThrow(j, thrown) ==
  /\ activeJobs' = IF thrown THEN activeJobs ELSE MapDelete(activeJobs, j)
  /\ sdPos' = IF thrown THEN sdPos ELSE PosAfterDelete(activeJobs, j)
  /\ immediates' = immediates + 1
  /\ retryTimers' = IF thrown THEN retryTimers + 1 ELSE retryTimers

\* Variant: the finally block leaves the next selection to the periodic tick.
Finally_WaitsForTick(j, thrown) ==
  /\ activeJobs' = MapDelete(activeJobs, j)
  /\ sdPos' = PosAfterDelete(activeJobs, j)
  /\ immediates' = immediates
  /\ retryTimers' = IF thrown THEN retryTimers + 1 ELSE retryTimers

\* The finally block of processNext (and, when thrown, its outer catch block).
Finally(j, thrown) ==
  /\ activeJobs' = MapDelete(activeJobs, j)
  /\ sdPos' = PosAfterDelete(activeJobs, j)
  /\ immediates' = immediates + 1
  /\ retryTimers' = IF thrown THEN retryTimers + 1 ELSE retryTimers

\* executeJob of slot s rejects with msg, r being the slot record once it has.
\* While processNext still awaits the race its catch block runs; a rejection
\* that comes after the timeout goes nowhere.
Rejected(s, r, msg) ==
  IF r.pn = "race"
    THEN LET h == HandleJobError(r, msg)
         IN /\ inv' = [inv EXCEPT ![s] = h.rec]
            /\ outs' = [outs EXCEPT ![r.job] = Append(@, "fail")]
            /\ IF h.threw THEN Finally(r.job, TRUE)
               ELSE UNCHANGED << activeJobs, sdPos, immediates, retryTimers >>
    ELSE /\ inv' = [inv EXCEPT ![s] = IF r.pn = "gone" THEN IdleInv ELSE r]
         /\ UNCHANGED << outs, activeJobs, sdPos, immediates, retryTimers >>

\* --------------------------------------------- executeJob / processFile
FileOf(s) == jobs[inv[s].job].fileId

\* File.findOne settles: a file found in status 'processing' rejects the
\* pipeline, otherwise file.save() of status 'processing' is issued.
ExFileFind(s) ==
  /\ inv[s].ex = "fileFind"
  /\ IF files[FileOf(s)] = "processing"
       THEN Rejected(s, [inv[s] EXCEPT !.ex = "none"], "File is already being processed")
       ELSE /\ inv' = [inv EXCEPT ![s].ex = "fileMark"]
            /\ UNCHANGED << outs, activeJobs, sdPos, immediates, retryTimers >>
  /\ UNCHANGED << jobs, files, processedAt, processing, degradedMode, phase,
                  startTimer, add, nextId, sd, sdCur, stuckJobs, skipped,
                  sdActive, lastRet, hist, execs, nTimeouts, nRestarts, nOverlap,
                  nSelect, cap, batchSize, batch, lineNumber, processedCount,
                  failedCount, errors, batchTimer, rlPaused, rlClosed, chunk,
                  flushes, result, nonBlank, parsed, handed, rejected,
                  idleFlushes, armedAt, delivered, accepted, reader, returned,
                  jobResult, pendingAtDegrade, fileData, lastSave, nSaves >>

\* The store applies file.save() of status 'processing'; processStream starts.
ExFileMark(s) ==
  /\ inv[s].ex = "fileMark"
  /\ files' = [files EXCEPT ![FileOf(s)] = "processing"]
  /\ inv' = [inv EXCEPT ![s].ex = "stream"]
  /\ UNCHANGED << jobs, processedAt, activeJobs, processing, degradedMode, phase,
                  startTimer, immediates, retryTimers, add, nextId, sd, sdPos,
                  sdCur, stuckJobs, skipped, sdActive, lastRet, hist, outs, execs,
                  nTimeouts, nRestarts, nOverlap, nSelect, cap, batchSize, batch,
                  lineNumber, processedCount, failedCount, errors, batchTimer,
                  rlPaused, rlClosed, chunk, flushes, result, nonBlank, parsed,
                  handed, rejected, idleFlushes, armedAt, delivered, accepted,
                  reader, returned, jobResult, pendingAtDegrade, fileData,
                  lastSave, nSaves >>

\* The store refuses file.save() of status 'processing' with error o:
\* processFile, and with it executeJob, rejects with that error.
ExFileMarkRefused(s, o) ==
  /\ cap.faults
  /\ o \in StoreErrors
  /\ inv[s].ex = "fileMark"
  /\ Rejected(s, [inv[s] EXCEPT !.ex = "none"], o.message)
  /\ UNCHANGED << jobs, files, processedAt, processing, degradedMode, phase,
                  startTimer, add, nextId, sd, sdCur, stuckJobs, skipped,
                  sdActive, lastRet, hist, execs, nTimeouts, nRestarts, nOverlap,
                  nSelect, cap, batchSize, batch, lineNumber, processedCount,
                  failedCount, errors, batchTimer, rlPaused, rlClosed, chunk,
                  flushes, result, nonBlank, parsed, handed, rejected,
                  idleFlushes, armedAt, delivered, accepted, reader, returned,
                  jobResult, pendingAtDegrade, fileData, lastSave, nSaves >>

\* The save of status 'processing' is acknowledged: processFile calls
\* processStream, which creates the readline interface; the processor is
\* configured with batch size n.
ExStreamStart(s, n) ==
  /\ cap.lines > 0
  /\ inv[s].ex = "stream"
  /\ reader = 0
  /\ reader' = s
  /\ batchSize' = n
  /\ batch' = << >>
  /\ lineNumber' = 0
  /\ processedCount' = 0
  /\ failedCount' = 0
  /\ errors' = << >>
  /\ batchTimer' = FALSE
  /\ rlPaused' = FALSE
  /\ rlClosed' = FALSE
  /\ chunk' = 0
  /\ flushes' = {}
  /\ result' = Unsettled
  /\ nonBlank' = 0
  /\ parsed' = {}
  /\ handed' = << >>
  /\ rejected' = {}
  /\ idleFlushes' = 0
  /\ armedAt' = 0
  /\ delivered' = 0
  /\ accepted' = {}
  /\ UNCHANGED << jobs, files, processedAt, activeJobs, processing, degradedMode,
                  phase, startTimer, immediates, retryTimers, inv, add, nextId,
                  sd, sdPos, sdCur, stuckJobs, skipped, sdActive, lastRet, hist,
                  outs, execs, nTimeouts, nRestarts, nOverlap, nSelect, cap,
                  returned, jobResult, pendingAtDegrade, fileData, lastSave,
                  nSaves >>

\* Variant: processFile throws when no record was processed.
ExFileDone_RejectsEmpty(s) ==
  /\ inv[s].ex = "stream"
  /\ cap.lines > 0 => (reader = s /\ result.state = "resolved")
  /\ reader' = 0
  /\ returned' = [returned EXCEPT ![s] = result]
  /\ IF cap.lines > 0 /\ result.processed = 0
       THEN /\ files' = [files EXCEPT ![FileOf(s)] = "failed"]
            /\ Rejected(s, [inv[s] EXCEPT !.ex = "none"], "no record processed")
            /\ UNCHANGED processedAt
       ELSE /\ files' = [files EXCEPT ![FileOf(s)] = "processed"]
            /\ processedAt' = [processedAt EXCEPT ![FileOf(s)] = TRUE]
            /\ inv' = [inv EXCEPT ![s].ex = "resolved"]
            /\ UNCHANGED << outs, activeJobs, sdPos, immediates, retryTimers >>
  /\ UNCHANGED << jobs, processing, degradedMode, phase, startTimer, add, nextId,
                  sd, sdCur, stuckJobs, skipped, sdActive, lastRet, hist, execs,
                  nTimeouts, nRestarts, nOverlap, nSelect, cap, batchSize, batch,
                  lineNumber, processedCount, failedCount, errors, batchTimer,
                  rlPaused, rlClosed, chunk, flushes, result, nonBlank, parsed,
                  handed, rejected, idleFlushes, armedAt, delivered, accepted,
                  jobResult, pendingAtDegrade, fileData, lastSave, nSaves >>

\* processStream has resolved with the counts and the store applies
\* file.save() of status 'processed' and processedAt; processFile returns
\* the counts.
ExFileDone(s) ==
  /\ inv[s].ex = "stream"
  /\ cap.lines > 0 => (reader = s /\ result.state = "resolved")
  /\ reader' = 0
  /\ returned' = [returned EXCEPT ![s] = result]
  /\ files' = [files EXCEPT ![FileOf(s)] = "processed"]
  /\ processedAt' = [processedAt EXCEPT ![FileOf(s)] = TRUE]
  /\ inv' = [inv EXCEPT ![s].ex = "resolved"]
  /\ UNCHANGED << jobs, activeJobs, processing, degradedMode, phase, startTimer,
                  immediates, retryTimers, add, nextId, sd, sdPos, sdCur,
                  stuckJobs, skipped, sdActive, lastRet, hist, outs, execs,
                  nTimeouts, nRestarts, nOverlap, nSelect, cap, batchSize, batch,
                  lineNumber, processedCount, failedCount, errors, batchTimer,
                  rlPaused, rlClosed, chunk, flushes, result, nonBlank, parsed,
                  handed, rejected, idleFlushes, armedAt, delivered, accepted,
                  jobResult, pendingAtDegrade, fileData, lastSave, nSaves >>

\* processStream has rejected with a stream read error and the store applies
\* file.save() of status 'failed'; processFile rethrows.
ExFileFail(s) ==
  /\ inv[s].ex = "stream"
  /\ cap.lines > 0 => (reader = s /\ result.state = "rejected")
  /\ reader' = 0
  /\ files' = [files EXCEPT ![FileOf(s)] = "failed"]
  /\ Rejected(s, [inv[s] EXCEPT !.ex = "none"], "stream read error")
  /\ UNCHANGED << jobs, processedAt, processing, degradedMode, phase, startTimer,
                  add, nextId, sd, sdCur, stuckJobs, skipped, sdActive, lastRet,
                  hist, execs, nTimeouts, nRestarts, nOverlap, nSelect, cap,
                  batchSize, batch, lineNumber, processedCount, failedCount,
                  errors, batchTimer, rlPaused, rlClosed, chunk, flushes, result,
                  nonBlank, parsed, handed, rejected, idleFlushes, armedAt,
                  delivered, accepted, returned, jobResult, pendingAtDegrade,
                  fileData, lastSave, nSaves >>

\* processFile has returned: executeJob assigns status 'completed', completedAt
\* and result and issues job.save().  While the save of handleJobError is in
\* flight that save() throws; paths handleJobError has assigned and not yet
\* saved are written along.
ExComplete(s) ==
  /\ inv[s].ex = "resolved"
  /\ IF ErrSaving(inv[s])
       THEN inv' = [inv EXCEPT ![s].ex = "none"]
       ELSE inv' = [inv EXCEPT ![s].ex = "jobSave", ![s].carry = inv[s].dErr]
  /\ UNCHANGED << jobs, files, processedAt, activeJobs, processing, degradedMode,
                  phase, startTimer, immediates, retryTimers, add, nextId, sd,
                  sdPos, sdCur, stuckJobs, skipped, sdActive, lastRet, hist, outs,
                  execs, nTimeouts, nRestarts, nOverlap, nSelect, cap, batchSize,
                  batch, lineNumber, processedCount, failedCount, errors,
                  batchTimer, rlPaused, rlClosed, chunk, flushes, result,
                  nonBlank, parsed, handed, rejected, idleFlushes, armedAt,
                  delivered, accepted, reader, returned, jobResult,
                  pendingAtDegrade, fileData, lastSave, nSaves >>

\* Variant: executeJob counts the attempt it completes.
ExJobSave_CountsAttempt(s) ==
  /\ inv[s].ex = "jobSave"
  /\ LET j == inv[s].job
         done == [jobs[j] EXCEPT !.status = "completed", !.completedAt = TRUE,
                                 !.result = TRUE, !.attempts = @ + 1]
     IN /\ jobs' = [jobs EXCEPT ![j] =
                      IF inv[s].carry
                        THEN [done EXCEPT !.attempts = inv[s].att + 1, !.error = inv[s].err]
                        ELSE done]
        /\ hist' = SetStatus(hist, j, "completed")
        /\ jobResult' = [jobResult EXCEPT ![j] = returned[s]]
  /\ inv' = [inv EXCEPT ![s].ex = "jobSaved"]
  /\ UNCHANGED << files, processedAt, activeJobs, processing, degradedMode, phase,
                  startTimer, immediates, retryTimers, add, nextId, sd, sdPos,
                  sdCur, stuckJobs, skipped, sdActive, lastRet, outs, execs,
                  nTimeouts, nRestarts, nOverlap, nSelect, cap, batchSize, batch,
                  lineNumber, processedCount, failedCount, errors, batchTimer,
                  rlPaused, rlClosed, chunk, flushes, result, nonBlank, parsed,
                  handed, rejected, idleFlushes, armedAt, delivered, accepted,
                  reader, returned, pendingAtDegrade, fileData, lastSave, nSaves >>

\* The store applies the job.save() of executeJob.
ExJobSave(s) ==
  /\ inv[s].ex = "jobSave"
  /\ LET j == inv[s].job
         done == [jobs[j] EXCEPT !.status = "completed", !.completedAt = TRUE,
                                 !.result = TRUE]
     IN /\ jobs' = [jobs EXCEPT ![j] =
                      IF inv[s].carry
                        THEN [done EXCEPT !.attempts = inv[s].att, !.error = inv[s].err]
                        ELSE done]
        /\ hist' = SetStatus(hist, j, "completed")
        /\ jobResult' = [jobResult EXCEPT ![j] = returned[s]]
  /\ inv' = [inv EXCEPT ![s].ex = "jobSaved"]
  /\ UNCHANGED << files, processedAt, activeJobs, processing, degradedMode, phase,
                  startTimer, immediates, retryTimers, add, nextId, sd, sdPos,
                  sdCur, stuckJobs, skipped, sdActive, lastRet, outs, execs,
                  nTimeouts, nRestarts, nOverlap, nSelect, cap, batchSize, batch,
                  lineNumber, processedCount, failedCount, errors, batchTimer,
                  rlPaused, rlClosed, chunk, flushes, result, nonBlank, parsed,
                  handed, rejected, idleFlushes, armedAt, delivered, accepted,
                  reader, returned, pendingAtDegrade, fileData, lastSave, nSaves >>

\* The save of executeJob is acknowledged: executeJob resolves, and when
\* processNext still awaits the race its finally block runs.
ExJobSaveAck(s) ==
  /\ inv[s].ex = "jobSaved"
  /\ LET r == [inv[s] EXCEPT !.ex = "none", !.dErr = FALSE, !.carry = FALSE]
     IN IF r.pn = "race"
          THEN /\ inv' = [inv EXCEPT ![s] = IdleInv]
               /\ outs' = [outs EXCEPT ![r.job] = Append(@, "ok")]
               /\ Finally(r.job, FALSE)
          ELSE /\ inv' = [inv EXCEPT ![s] = IF r.pn = "gone" THEN IdleInv ELSE r]
               /\ UNCHANGED << outs, activeJobs, sdPos, immediates, retryTimers >>
  /\ UNCHANGED << jobs, files, processedAt, processing, degradedMode, phase,
                  startTimer, add, nextId, sd, sdCur, stuckJobs, skipped,
                  sdActive, lastRet, hist, execs, nTimeouts, nRestarts, nOverlap,
                  nSelect, cap, batchSize, batch, lineNumber, processedCount,
                  failedCount, errors, batchTimer, rlPaused, rlClosed, chunk,
                  flushes, result, nonBlank, parsed, handed, rejected,
                  idleFlushes, armedAt, delivered, accepted, reader, returned,
                  jobResult, pendingAtDegrade, fileData, lastSave, nSaves >>

\* The timeout promise rejects first: the catch block of processNext runs
\* while executeJob goes on.
Timeout(s) ==
  /\ inv[s].pn = "race"
  /\ inv[s].ex # "none"
  /\ nTimeouts < MaxTimeouts
  /\ nTimeouts' = nTimeouts + 1
  /\ LET h == HandleJobError(inv[s], "Job timeout")
     IN /\ inv' = [inv EXCEPT ![s] = h.rec]
        /\ outs' = [outs EXCEPT ![inv[s].job] = Append(@, "timeout")]
        /\ IF h.threw THEN Finally(inv[s].job, TRUE)
           ELSE UNCHANGED << activeJobs, sdPos, immediates, retryTimers >>
  /\ UNCHANGED << jobs, files, processedAt, processing, degradedMode, phase,
                  startTimer, add, nextId, sd, sdCur, stuckJobs, skipped,
                  sdActive, lastRet, hist, execs, nRestarts, nOverlap, nSelect,
                  cap, batchSize, batch, lineNumber, processedCount, failedCount,
                  errors, batchTimer, rlPaused, rlClosed, chunk, flushes, result,
                  nonBlank, parsed, handed, rejected, idleFlushes, armedAt,
                  delivered, accepted, reader, returned, jobResult,
                  pendingAtDegrade, fileData, lastSave, nSaves >>

\* ------------------------------------------------- handleJobError, awaited
\* The store applies File.updateOne({fileId}, {status: 'failed'}).
ErrFile(s) ==
  /\ inv[s].pn = "errFile"
  /\ files' = [files EXCEPT ![FileOf(s)] = "failed"]
  /\ inv' = [inv EXCEPT ![s].pn = "errFileAck"]
  /\ UNCHANGED << jobs, processedAt, activeJobs, processing, degradedMode, phase,
                  startTimer, immediates, retryTimers, add, nextId, sd, sdPos,
                  sdCur, stuckJobs, skipped, sdActive, lastRet, hist, outs, execs,
                  nTimeouts, nRestarts, nOverlap, nSelect, cap, batchSize, batch,
                  lineNumber, processedCount, failedCount, errors, batchTimer,
                  rlPaused, rlClosed, chunk, flushes, result, nonBlank, parsed,
                  handed, rejected, idleFlushes, armedAt, delivered, accepted,
                  reader, returned, jobResult, pendingAtDegrade, fileData,
                  lastSave, nSaves >>

\* After the file update: job.save() is issued.  It throws while the save of
\* an abandoned executeJob is in flight, and has nothing to write when such a
\* save has meanwhile been acknowledged.
ErrFileAck(s) ==
  /\ inv[s].pn = "errFileAck"
  /\ IF ExSaving(inv[s])
       THEN /\ inv' = [inv EXCEPT ![s] = AfterFinally(inv[s])]
            /\ Finally(inv[s].job, TRUE)
       ELSE /\ inv' = [inv EXCEPT ![s].pn = IF inv[s].dErr THEN "errSave" ELSE "errSaved"]
            /\ UNCHANGED << activeJobs, sdPos, immediates, retryTimers >>
  /\ UNCHANGED << jobs, files, processedAt, processing, degradedMode, phase,
                  startTimer, add, nextId, sd, sdCur, stuckJobs, skipped,
                  sdActive, lastRet, hist, outs, execs, nTimeouts, nRestarts,
                  nOverlap, nSelect, cap, batchSize, batch, lineNumber,
                  processedCount, failedCount, errors, batchTimer, rlPaused,
                  rlClosed, chunk, flushes, result, nonBlank, parsed, handed,
                  rejected, idleFlushes, armedAt, delivered, accepted, reader,
                  returned, jobResult, pendingAtDegrade, fileData, lastSave,
                  nSaves >>

\* The store applies the job.save() of handleJobError.
ErrSave(s) ==
  /\ inv[s].pn = "errSave"
  /\ LET j == inv[s].job
         final == inv[s].att >= maxAttempts(j)
         st == IF final THEN "failed" ELSE "pending"
     IN /\ jobs' = [jobs EXCEPT ![j].attempts = inv[s].att,
                                ![j].error = inv[s].err,
                                ![j].status = st,
                                ![j].completedAt = IF final THEN TRUE ELSE @]
        /\ hist' = SetStatus(hist, j, st)
  /\ inv' = [inv EXCEPT ![s].pn = "errSaved"]
  /\ UNCHANGED << files, processedAt, activeJobs, processing, degradedMode, phase,
                  startTimer, immediates, retryTimers, add, nextId, sd, sdPos,
                  sdCur, stuckJobs, skipped, sdActive, lastRet, outs, execs,
                  nTimeouts, nRestarts, nOverlap, nSelect, cap, batchSize, batch,
                  lineNumber, processedCount, failedCount, errors, batchTimer,
                  rlPaused, rlClosed, chunk, flushes, result, nonBlank, parsed,
                  handed, rejected, idleFlushes, armedAt, delivered, accepted,
                  reader, returned, jobResult, pendingAtDegrade, fileData,
                  lastSave, nSaves >>

\* The save is acknowledged: handleJobError returns and the finally block of
\* processNext runs.
ErrSaved(s) ==
  /\ inv[s].pn = "errSaved"
  /\ inv' = [inv EXCEPT ![s] = AfterFinally([inv[s] EXCEPT !.dErr = FALSE])]
  /\ Finally(inv[s].job, FALSE)
  /\ UNCHANGED << jobs, files, processedAt, processing, degradedMode, phase,
                  startTimer, add, nextId, sd, sdCur, stuckJobs, skipped,
                  sdActive, lastRet, hist, outs, execs, nTimeouts, nRestarts,
                  nOverlap, nSelect, cap, batchSize, batch, lineNumber,
                  processedCount, failedCount, errors, batchTimer, rlPaused,
                  rlClosed, chunk, flushes, result, nonBlank, parsed, handed,
                  rejected, idleFlushes, armedAt, delivered, accepted, reader,
                  returned, jobResult, pendingAtDegrade, fileData, lastSave,
                  nSaves >>

\* --------------------------------------------------------------- shutdown
\* Variant: shutdown leaves degraded mode.
Shutdown_ClearsDegraded ==
  /\ phase = "running"
  /\ sd = "none"
  /\ add.pc = "idle"
  /\ processing' = FALSE
  /\ degradedMode' = FALSE
  /\ sd' = IF Len(activeJobs) > 0 THEN "waiting" ELSE "done"
  /\ UNCHANGED << jobs, files, processedAt, activeJobs, phase, startTimer,
                  immediates, retryTimers, inv, add, nextId, sdPos, sdCur,
                  stuckJobs, skipped, sdActive, lastRet, hist, outs, execs,
                  nTimeouts, nRestarts, nOverlap, nSelect, cap, batchSize, batch,
                  lineNumber, processedCount, failedCount, errors, batchTimer,
                  rlPaused, rlClosed, chunk, flushes, result, nonBlank, parsed,
                  handed, rejected, idleFlushes, armedAt, delivered, accepted,
                  reader, returned, jobResult, pendingAtDegrade, fileData,
                  lastSave, nSaves >>

\* shutdown() up to its first await: stopProcessing, then the first test of
\* the wait loop.
Shutdown ==
  /\ phase = "running"
  /\ sd = "none"
  /\ add.pc = "idle"
  /\ processing' = FALSE
  /\ sd' = IF Len(activeJobs) > 0 THEN "waiting" ELSE "done"
  /\ UNCHANGED << jobs, files, processedAt, activeJobs, degradedMode, phase,
                  startTimer, immediates, retryTimers, inv, add, nextId, sdPos,
                  sdCur, stuckJobs, skipped, sdActive, lastRet, hist, outs, execs,
                  nTimeouts, nRestarts, nOverlap, nSelect, cap, batchSize, batch,
                  lineNumber, processedCount, failedCount, errors, batchTimer,
                  rlPaused, rlClosed, chunk, flushes, result, nonBlank, parsed,
                  handed, rejected, idleFlushes, armedAt, delivered, accepted,
                  reader, returned, jobResult, pendingAtDegrade, fileData,
                  lastSave, nSaves >>

\* A one-second sleep of the wait loop ends and finds the active set drained,
\* or the grace period over: the reset loop starts with the first Map entry.
ShutdownWake(expired) ==
  /\ sd = "waiting"
  /\ IF Len(activeJobs) = 0
       THEN sd' = "done" /\ UNCHANGED << sdPos, sdCur, sdActive >>
       ELSE /\ expired
            /\ sdActive' = {activeJobs[n] : n \in 1..Len(activeJobs)}
            /\ sd' = "reset"
            /\ sdPos' = 1
            /\ sdCur' = activeJobs[1]
  /\ UNCHANGED << jobs, files, processedAt, activeJobs, processing, degradedMode,
                  phase, startTimer, immediates, retryTimers, inv, add, nextId,
                  stuckJobs, skipped, lastRet, hist, outs, execs, nTimeouts,
                  nRestarts, nOverlap, nSelect, cap, batchSize, batch, lineNumber,
                  processedCount, failedCount, errors, batchTimer, rlPaused,
                  rlClosed, chunk, flushes, result, nonBlank, parsed, handed,
                  rejected, idleFlushes, armedAt, delivered, accepted, reader,
                  returned, jobResult, pendingAtDegrade, fileData, lastSave,
                  nSaves >>

\* The store applies Job.updateOne({jobId}, {status: 'pending', startedAt: null}).
ShutdownReset ==
  /\ sd = "reset"
  /\ jobs' = [jobs EXCEPT ![sdCur].status = "pending", ![sdCur].startedAt = FALSE]
  /\ hist' = SetStatus(hist, sdCur, "pending")
  /\ sd' = "resetAck"
  /\ UNCHANGED << files, processedAt, activeJobs, processing, degradedMode, phase,
                  startTimer, immediates, retryTimers, inv, add, nextId, sdPos,
                  sdCur, stuckJobs, skipped, sdActive, lastRet, outs, execs,
                  nTimeouts, nRestarts, nOverlap, nSelect, cap, batchSize, batch,
                  lineNumber, processedCount, failedCount, errors, batchTimer,
                  rlPaused, rlClosed, chunk, flushes, result, nonBlank, parsed,
                  handed, rejected, idleFlushes, armedAt, delivered, accepted,
                  reader, returned, jobResult, pendingAtDegrade, fileData,
                  lastSave, nSaves >>

\* The update is acknowledged: the iterator moves to the next entry of the
\* Map, or the loop ends and activeJobs.clear() runs.
ShutdownResetAck ==
  /\ sd = "resetAck"
  /\ IF sdPos < Len(activeJobs)
       THEN /\ sd' = "reset"
            /\ sdPos' = sdPos + 1
            /\ sdCur' = activeJobs[sdPos + 1]
            /\ UNCHANGED activeJobs
       ELSE /\ sd' = "done"
            /\ sdPos' = 0
            /\ sdCur' = 0
            /\ activeJobs' = << >>
  /\ UNCHANGED << jobs, files, processedAt, processing, degradedMode, phase,
                  startTimer, immediates, retryTimers, inv, add, nextId,
                  stuckJobs, skipped, sdActive, lastRet, hist, outs, execs,
                  nTimeouts, nRestarts, nOverlap, nSelect, cap, batchSize, batch,
                  lineNumber, processedCount, failedCount, errors, batchTimer,
                  rlPaused, rlClosed, chunk, flushes, result, nonBlank, parsed,
                  handed, rejected, idleFlushes, armedAt, delivered, accepted,
                  reader, returned, jobResult, pendingAtDegrade, fileData,
                  lastSave, nSaves >>

\* ---------------------------------------------------------------- restart
\* The process ends (exit after shutdown, crash, kill) and a new one is
\* started: memory is as constructed, the store keeps its documents.
Restart ==
  /\ phase \in {"running", "dead"}
  /\ nRestarts < MaxRestarts
  /\ nRestarts' = nRestarts + 1
  /\ activeJobs' = << >>
  /\ processing' = FALSE
  /\ degradedMode' = FALSE
  /\ phase' = "constructed"
  /\ startTimer' = FALSE
  /\ immediates' = 0
  /\ retryTimers' = 0
  /\ inv' = [s \in Slots |-> IdleInv]
  /\ add' = IdleAdd
  /\ sd' = "none"
  /\ sdPos' = 0
  /\ sdCur' = 0
  /\ stuckJobs' = {}
  /\ skipped' = {}
  /\ sdActive' = {}
  /\ pendingAtDegrade' = {}
  /\ reader' = 0
  /\ returned' = [s \in Slots |-> Unsettled]
  /\ lastRet' = [kind |-> "none"]
  /\ UNCHANGED << jobs, files, processedAt, nextId, hist, outs, execs, nTimeouts,
                  nOverlap, nSelect, cap, batchSize, batch, lineNumber,
                  processedCount, failedCount, errors, batchTimer, rlPaused,
                  rlClosed, chunk, flushes, result, nonBlank, parsed, handed,
                  rejected, idleFlushes, armedAt, delivered, accepted, jobResult,
                  fileData, lastSave, nSaves >>

\* --------------------------------------------------------------- getStats
CountJobs(st) == Cardinality({j \in JobIds : jobs[j].status = st})
CountFiles(st) == Cardinality({f \in FileIds : files[f] = st})
\* What getStats() returns when the store answers its counts at once.
getStats ==
  [pending |-> CountJobs("pending"), processing |-> CountJobs("processing"),
   completed |-> CountJobs("completed"), failed |-> CountJobs("failed"),
   active |-> Len(activeJobs), maxConcurrent |-> maxConcurrentJobs,
   degradedMode |-> degradedMode,
   files |-> [uploaded |-> CountFiles("uploaded"), processing |-> CountFiles("processing"),
              processed |-> CountFiles("processed"), failed |-> CountFiles("failed")]]

\* ---------------------------------------------------------- processStream
\* readline emits the lines of a chunk one after the other without returning
\* to the event loop, so that timers and settled promises are served only
\* between chunks (chunk = 0).  rl.pause() pauses the input stream and does
\* not hold back the lines of the chunk in hand.
LineKinds == {"blank", "record", "malformed"}

ParseError(n) == [type |-> "parse_error", line |-> n, batchSize |-> 0]
BatchError(k) == [type |-> "batch_error", line |-> 0, batchSize |-> k]

\* resolve({processed, failed, errors: errors.slice(0, 100)})
Resolved(p, f, e) ==
  [state |-> "resolved", processed |-> p, failed |-> f,
   errors |-> IF Len(e) < errorLimit THEN Len(e) ELSE errorLimit]

\* flushBatch up to its await: nothing to do for an empty batch, otherwise
\* the batch is taken over, `batch` starts anew and the sink is called.
StartFlush(by) ==
  IF batch = << >>
    THEN UNCHANGED << batch, flushes, handed >>
    ELSE /\ batch' = << >>
         /\ flushes' = flushes \cup {[batch |-> batch, by |-> by]}
         /\ handed' = Append(handed, batch)

\* The longest input of the scenario.
LineLimit == IF cap.lines > 0 THEN cap.lines ELSE MaxLines

\* The input stream delivers a chunk of n lines.
Data(n) ==
  /\ batchSize > 0
  /\ ~rlClosed
  /\ ~rlPaused
  /\ chunk = 0
  /\ n \in 1..(LineLimit - delivered)
  /\ chunk' = n
  /\ delivered' = delivered + n
  /\ UNCHANGED << jobs, files, processedAt, activeJobs, processing, degradedMode,
                  phase, startTimer, immediates, retryTimers, inv, add, nextId,
                  sd, sdPos, sdCur, stuckJobs, skipped, sdActive, lastRet, hist,
                  outs, execs, nTimeouts, nRestarts, nOverlap, nSelect, cap,
                  batchSize, batch, lineNumber, processedCount, failedCount,
                  errors, batchTimer, rlPaused, rlClosed, flushes, result,
                  nonBlank, parsed, handed, rejected, idleFlushes, armedAt,
                  accepted, reader, returned, jobResult, pendingAtDegrade,
                  fileData, lastSave, nSaves >>

\* Variant: a blank line does not advance the line counter.
Line_BlankUncounted(k) ==
  /\ chunk > 0
  /\ chunk' = chunk - 1
  /\ lineNumber' = IF k = "blank" THEN lineNumber ELSE lineNumber + 1
  /\ nonBlank' = IF k = "blank" THEN nonBlank ELSE nonBlank + 1
  /\ IF k = "malformed"
       THEN /\ failedCount' = failedCount + 1
            /\ errors' = IF Len(errors) < errorLimit
                            THEN Append(errors, ParseError(lineNumber + 1))
                            ELSE errors
       ELSE UNCHANGED << failedCount, errors >>
  /\ IF k = "record"
       THEN LET b == Append(batch, lineNumber + 1)
            IN /\ parsed' = parsed \cup {lineNumber + 1}
               /\ IF Len(b) >= batchSize
                    THEN /\ rlPaused' = TRUE
                         /\ batch' = << >>
                         /\ flushes' = flushes \cup {[batch |-> b, by |-> "line"]}
                         /\ handed' = Append(handed, b)
                         /\ UNCHANGED << batchTimer, armedAt >>
                    ELSE /\ batch' = b
                         /\ batchTimer' = TRUE
                         /\ armedAt' = lineNumber + 1
                         /\ UNCHANGED << rlPaused, flushes, handed >>
       ELSE UNCHANGED << parsed, rlPaused, batch, flushes, handed, batchTimer,
                         armedAt >>
  /\ UNCHANGED << jobs, files, processedAt, activeJobs, processing, degradedMode,
                  phase, startTimer, immediates, retryTimers, inv, add, nextId,
                  sd, sdPos, sdCur, stuckJobs, skipped, sdActive, lastRet, hist,
                  outs, execs, nTimeouts, nRestarts, nOverlap, nSelect, cap,
                  batchSize, processedCount, rlClosed, result, rejected,
                  idleFlushes, delivered, accepted, reader, returned, jobResult,
                  pendingAtDegrade, fileData, lastSave, nSaves >>

\* The 'line' handler up to its first await, for a line of kind k: a blank
\* line is skipped, a line the parser throws on is counted as failed, and a
\* record is pushed; a full batch pauses the input and is flushed, a batch
\* not yet full arms the idle timer anew.
Line(k) ==
  /\ chunk > 0
  /\ chunk' = chunk - 1
  /\ lineNumber' = lineNumber + 1
  /\ nonBlank' = IF k = "blank" THEN nonBlank ELSE nonBlank + 1
  /\ IF k = "malformed"
       THEN /\ failedCount' = failedCount + 1
            /\ errors' = IF Len(errors) < errorLimit
                            THEN Append(errors, ParseError(lineNumber + 1))
                            ELSE errors
       ELSE UNCHANGED << failedCount, errors >>
  /\ IF k = "record"
       THEN LET b == Append(batch, lineNumber + 1)
            IN /\ parsed' = parsed \cup {lineNumber + 1}
               /\ IF Len(b) >= batchSize
                    THEN /\ rlPaused' = TRUE
                         /\ batch' = << >>
                         /\ flushes' = flushes \cup {[batch |-> b, by |-> "line"]}
                         /\ handed' = Append(handed, b)
                         /\ UNCHANGED << batchTimer, armedAt >>
                    ELSE /\ batch' = b
                         /\ batchTimer' = TRUE
                         /\ armedAt' = lineNumber + 1
                         /\ UNCHANGED << rlPaused, flushes, handed >>
       ELSE UNCHANGED << parsed, rlPaused, batch, flushes, handed, batchTimer,
                         armedAt >>
  /\ UNCHANGED << jobs, files, processedAt, activeJobs, processing, degradedMode,
                  phase, startTimer, immediates, retryTimers, inv, add, nextId,
                  sd, sdPos, sdCur, stuckJobs, skipped, sdActive, lastRet, hist,
                  outs, execs, nTimeouts, nRestarts, nOverlap, nSelect, cap,
                  batchSize, processedCount, rlClosed, result, rejected,
                  idleFlushes, delivered, accepted, reader, returned, jobResult,
                  pendingAtDegrade, fileData, lastSave, nSaves >>

\* The idle timer fires: flushBatch() is called, the input is not paused.
TimerFire ==
  /\ batchTimer
  /\ chunk = 0
  /\ batchTimer' = FALSE
  /\ idleFlushes' = IF batch = << >> THEN idleFlushes ELSE idleFlushes + 1
  /\ StartFlush("timer")
  /\ UNCHANGED << jobs, files, processedAt, activeJobs, processing, degradedMode,
                  phase, startTimer, immediates, retryTimers, inv, add, nextId,
                  sd, sdPos, sdCur, stuckJobs, skipped, sdActive, lastRet, hist,
                  outs, execs, nTimeouts, nRestarts, nOverlap, nSelect, cap,
                  batchSize, lineNumber, processedCount, failedCount, errors,
                  rlPaused, rlClosed, chunk, result, nonBlank, parsed, rejected,
                  armedAt, delivered, accepted, reader, returned, jobResult,
                  pendingAtDegrade, fileData, lastSave, nSaves >>

\* Variant: the counts are taken from `batch` when the sink has settled.
FlushSettle_CountsPending(fl, ok) ==
  /\ fl \in flushes
  /\ chunk = 0
  /\ LET k == Len(fl.batch) + Len(batch)
         p == IF ok THEN processedCount + k ELSE processedCount
         f == IF ok THEN failedCount ELSE failedCount + k
         e == IF ok THEN errors ELSE Append(errors, BatchError(k))
     IN /\ flushes' = flushes \ {fl}
        /\ processedCount' = p
        /\ failedCount' = f
        /\ errors' = e
        /\ rejected' = IF ok THEN rejected ELSE rejected \cup {fl.batch}
        /\ accepted' = IF ok THEN accepted \cup {fl.batch} ELSE accepted
        /\ batchTimer' = FALSE
        /\ rlPaused' = IF fl.by = "line" THEN FALSE ELSE rlPaused
        /\ result' = IF fl.by = "close" /\ result.state = "pending"
                        THEN Resolved(p, f, e) ELSE result
  /\ UNCHANGED << jobs, files, processedAt, activeJobs, processing, degradedMode,
                  phase, startTimer, immediates, retryTimers, inv, add, nextId,
                  sd, sdPos, sdCur, stuckJobs, skipped, sdActive, lastRet, hist,
                  outs, execs, nTimeouts, nRestarts, nOverlap, nSelect, cap,
                  batchSize, batch, lineNumber, rlClosed, chunk, nonBlank, parsed,
                  handed, idleFlushes, armedAt, delivered, reader, returned,
                  jobResult, pendingAtDegrade, fileData, lastSave, nSaves >>

\* The sink settles the call of flush fl, resolving (ok) or rejecting: the
\* rest of flushBatch runs (counts, aggregated error entry, the idle timer is
\* cleared), and then the code that awaited it: the 'line' handler resumes
\* the input, the 'close' handler resolves the promise of processStream.
FlushSettle(fl, ok) ==
  /\ fl \in flushes
  /\ chunk = 0
  /\ LET k == Len(fl.batch)
         p == IF ok THEN processedCount + k ELSE processedCount
         f == IF ok THEN failedCount ELSE failedCount + k
         e == IF ok THEN errors ELSE Append(errors, BatchError(k))
     IN /\ flushes' = flushes \ {fl}
        /\ processedCount' = p
        /\ failedCount' = f
        /\ errors' = e
        /\ rejected' = IF ok THEN rejected ELSE rejected \cup {fl.batch}
        /\ accepted' = IF ok THEN accepted \cup {fl.batch} ELSE accepted
        /\ batchTimer' = FALSE
        /\ rlPaused' = IF fl.by = "line" THEN FALSE ELSE rlPaused
        /\ result' = IF fl.by = "close" /\ result.state = "pending"
                        THEN Resolved(p, f, e) ELSE result
  /\ UNCHANGED << jobs, files, processedAt, activeJobs, processing, degradedMode,
                  phase, startTimer, immediates, retryTimers, inv, add, nextId,
                  sd, sdPos, sdCur, stuckJobs, skipped, sdActive, lastRet, hist,
                  outs, execs, nTimeouts, nRestarts, nOverlap, nSelect, cap,
                  batchSize, batch, lineNumber, rlClosed, chunk, nonBlank, parsed,
                  handed, idleFlushes, armedAt, delivered, reader, returned,
                  jobResult, pendingAtDegrade, fileData, lastSave, nSaves >>

\* The input stream ends and readline emits 'close': the handler flushes what
\* is left in `batch`; with nothing left it clears the timer and resolves at
\* once.
End ==
  /\ batchSize > 0
  /\ ~rlClosed
  /\ ~rlPaused
  /\ chunk = 0
  /\ rlClosed' = TRUE
  /\ StartFlush("close")
  /\ IF batch = << >>
       THEN /\ batchTimer' = FALSE
            /\ result' = Resolved(processedCount, failedCount, errors)
       ELSE UNCHANGED << batchTimer, result >>
  /\ UNCHANGED << jobs, files, processedAt, activeJobs, processing, degradedMode,
                  phase, startTimer, immediates, retryTimers, inv, add, nextId,
                  sd, sdPos, sdCur, stuckJobs, skipped, sdActive, lastRet, hist,
                  outs, execs, nTimeouts, nRestarts, nOverlap, nSelect, cap,
                  batchSize, lineNumber, processedCount, failedCount, errors,
                  rlPaused, chunk, nonBlank, parsed, rejected, idleFlushes,
                  armedAt, delivered, accepted, reader, returned, jobResult,
                  pendingAtDegrade, fileData, lastSave, nSaves >>

\* reject(error)
Failed == [state |-> "rejected", processed |-> 0, failed |-> 0, errors |-> 0]

\* Variant: the 'error' handler flushes the pending batch before it rejects.
ReadError_FlushesPending ==
  /\ batchSize > 0
  /\ ~rlClosed
  /\ chunk = 0
  /\ result.state = "pending"
  /\ batchTimer' = FALSE
  /\ rlClosed' = TRUE
  /\ StartFlush("error")
  /\ result' = Failed
  /\ UNCHANGED << jobs, files, processedAt, activeJobs, processing, degradedMode,
                  phase, startTimer, immediates, retryTimers, inv, add, nextId,
                  sd, sdPos, sdCur, stuckJobs, skipped, sdActive, lastRet, hist,
                  outs, execs, nTimeouts, nRestarts, nOverlap, nSelect, cap,
                  batchSize, lineNumber, processedCount, failedCount, errors,
                  rlPaused, chunk, nonBlank, parsed, rejected, idleFlushes,
                  armedAt, delivered, accepted, reader, returned, jobResult,
                  pendingAtDegrade, fileData, lastSave, nSaves >>

\* The input stream fails and the 'error' handler runs: the idle timer is
\* cleared, the listeners are removed and the promise of processStream is
\* rejected.
ReadError ==
  /\ batchSize > 0
  /\ ~rlClosed
  /\ chunk = 0
  /\ result.state = "pending"
  /\ batchTimer' = FALSE
  /\ rlClosed' = TRUE
  /\ result' = Failed
  /\ UNCHANGED << jobs, files, processedAt, activeJobs, processing, degradedMode,
                  phase, startTimer, immediates, retryTimers, inv, add, nextId,
                  sd, sdPos, sdCur, stuckJobs, skipped, sdActive, lastRet, hist,
                  outs, execs, nTimeouts, nRestarts, nOverlap, nSelect, cap,
                  batchSize, batch, lineNumber, processedCount, failedCount,
                  errors, rlPaused, chunk, flushes, nonBlank, parsed, handed,
                  rejected, idleFlushes, armedAt, delivered, accepted, reader,
                  returned, jobResult, pendingAtDegrade, fileData, lastSave,
                  nSaves >>

\* -------------------------------------------------------------- saveBatch
\* fileDataSchema.index({ fileId: 1, lineNumber: 1 }) is declared without
\* `unique`.
uniqueFileLine == FALSE
DuplicateKey == 11000

\* FileData.insertMany(documents, { ordered: false }) for the lines `docs` of
\* file f: under a unique index the documents whose key is stored already
\* are left out and the call fails with the duplicate-key error, the others
\* being inserted all the same.
Duplicates(f, docs) == {n \in docs : fileData[f][n] > 0}
Inserted(f, docs) == IF uniqueFileLine THEN docs \ Duplicates(f, docs) ELSE docs
InsertError(f, docs) ==
  IF uniqueFileLine /\ Duplicates(f, docs) # {} THEN DuplicateKey ELSE 0

\* saveBatch(fileId, batch) for a batch holding the lines lo..hi: the
\* duplicate-key error is swallowed, any other error is thrown on.
saveBatch(f, lo, hi) ==
  /\ nSaves < MaxSaves
  /\ lo <= hi
  /\ nSaves' = nSaves + 1
  /\ fileData' = [fileData EXCEPT ![f] =
                    [n \in 1..MaxLines |-> IF n \in Inserted(f, lo..hi) THEN @[n] + 1 ELSE @[n]]]
  /\ lastSave' = IF InsertError(f, lo..hi) \in {0, DuplicateKey} THEN "ok" ELSE "threw"
  /\ UNCHANGED << jobs, files, processedAt, activeJobs, processing, degradedMode,
                  phase, startTimer, immediates, retryTimers, inv, add, nextId,
                  sd, sdPos, sdCur, stuckJobs, skipped, sdActive, lastRet, hist,
                  outs, execs, nTimeouts, nRestarts, nOverlap, nSelect, cap,
                  batchSize, batch, lineNumber, processedCount, failedCount,
                  errors, batchTimer, rlPaused, rlClosed, chunk, flushes, result,
                  nonBlank, parsed, handed, rejected, idleFlushes, armedAt,
                  delivered, accepted, reader, returned, jobResult,
                  pendingAtDegrade >>

\* ------------------------------------------------------------------- Next
\* The queue at work: start, addJob, the control loop and the pipeline.
NextCore ==
  \/ \E o \in StoreOutcomes : InitializeFind(o)
  \/ StartProcessing
  \/ \E f \in FileIds, p \in Priorities : AddJobCall(f, p)
  \/ \E o \in StoreOutcomes : AddJobSave(o)
  \/ AddJobReturn
  \/ Tick
  \/ Immediate
  \/ \E s \in Slots : PNFind(s)
  \/ \E s \in Slots : PNMark(s)
  \/ \E s \in Slots : PNAdmit(s)
  \/ \E s \in Slots : ExFileFind(s)
  \/ \E s \in Slots : ExFileMark(s)
  \/ \E s \in Slots : ExFileDone(s)
  \/ \E s \in Slots : ExFileFail(s)
  \/ \E s \in Slots : ExComplete(s)
  \/ \E s \in Slots : ExJobSave(s)
  \/ \E s \in Slots : ExJobSaveAck(s)
  \/ \E s \in Slots : ErrFile(s)
  \/ \E s \in Slots : ErrFileAck(s)
  \/ \E s \in Slots : ErrSave(s)
  \/ \E s \in Slots : ErrSaved(s)

\* ... with job timeouts.
NextTimeout ==
  \/ NextCore
  \/ \E s \in Slots : Timeout(s)
  \/ RetryTimer

\* ... with the process ending and starting again.
NextRestart ==
  \/ NextCore
  \/ \E o \in StoreOutcomes : InitializeSaveStuck(o)
  \/ Restart

\* ... with the store refusing a write of processFile.
NextFaulty ==
  \/ NextCore
  \/ \E s \in Slots, o \in StoreErrors : ExFileMarkRefused(s, o)

\* ... with a graceful shutdown.
NextShutdown ==
  \/ NextCore
  \/ Shutdown
  \/ \E e \in BOOLEAN : ShutdownWake(e)
  \/ ShutdownReset
  \/ ShutdownResetAck

\* One stream going through processStream.
NextStream ==
  \/ \E n \in 1..MaxLines : Data(n)
  \/ \E k \in LineKinds : Line(k)
  \/ TimerFire
  \/ \E fl \in flushes, ok \in BOOLEAN : FlushSettle(fl, ok)
  \/ End

\* One stream whose input may fail.
NextStreamFailing ==
  \/ NextStream
  \/ ReadError

\* The queue with the stream of each execution followed line by line.
NextPiped ==
  \/ NextCore
  \/ \E s \in Slots, n \in 1..PipedBatch : ExStreamStart(s, n)
  \/ NextStreamFailing

\* Batches of parsed lines being persisted.
NextSave ==
  \E f \in FileIds, lo \in 1..MaxLines, hi \in 1..MaxLines : saveBatch(f, lo, hi)

\* -------------------------------------------------------------- scenarios
\* Two jobs, processNext invocations may overlap, the store always answers.
Overlapping == [jobs |-> MaxJobs, selects |-> MaxSelect, overlaps |-> MaxOverlap,
                priority |-> 0, faults |-> FALSE, lines |-> 0]
\* Two jobs of any priority; one processNext invocation at a time, and
\* selections enough for one job to use up its attempts.
Serial == [jobs |-> MaxJobs, selects |-> retryAttempts, overlaps |-> 0,
           priority |-> MaxPriority, faults |-> FALSE, lines |-> 0]
\* One job, one processNext invocation at a time, and a store that may fail.
Solo == [jobs |-> SoloJobs, selects |-> retryAttempts, overlaps |-> 0,
         priority |-> 0, faults |-> TRUE, lines |-> 0]
\* One job that is selected once more than it has attempts.
SoloRetried == [jobs |-> SoloJobs, selects |-> MaxSelect, overlaps |-> 0,
                priority |-> 0, faults |-> FALSE, lines |-> 0]
\* One job that may be selected again while an execution of it that the
\* timeout abandoned still runs.
SoloOverlapping == [SoloRetried EXCEPT !.overlaps = MaxOverlap]

Init == InitIn(Overlapping)
InitSerial == InitIn(Serial)
InitSolo == InitIn(Solo)
InitSoloRetried == InitIn(SoloRetried)
InitSoloOverlapping == InitIn(SoloOverlapping)

Spec == Init /\ [][NextCore]_vars
SpecSerial == InitSerial /\ [][NextCore]_vars
SpecSolo == InitSolo /\ [][NextCore]_vars
SpecShutdown == InitSolo /\ [][NextShutdown]_vars
SpecShutdownRetried == InitSoloRetried /\ [][NextShutdown]_vars
SpecTimeout == InitSoloOverlapping /\ [][NextTimeout]_vars
SpecRestart == InitSolo /\ [][NextRestart]_vars
SpecFaulty == InitSolo /\ [][NextFaulty]_vars

\* The steps of one processNext invocation and of the executeJob it starts,
\* from the answer of findOne on.
Pipeline(s) ==
  \/ PNFind(s) \/ PNMark(s) \/ PNAdmit(s)
  \/ ExFileFind(s) \/ ExFileMark(s) \/ ExFileDone(s) \/ ExFileFail(s)
  \/ ExComplete(s) \/ ExJobSave(s) \/ ExJobSaveAck(s)
  \/ ErrFile(s) \/ ErrFileAck(s) \/ ErrSave(s) \/ ErrSaved(s)

\* Timers and setImmediate callbacks that are due run, and the store answers
\* every operation it was sent.  Nothing obliges a client to call addJob.
Fairness ==
  /\ WF_vars(StartProcessing)
  /\ WF_vars(Tick)
  /\ WF_vars(Immediate)
  /\ \A s \in Slots : WF_vars(Pipeline(s))

\* The same without the periodic tick: the code after an await runs, and so
\* do the setImmediate callbacks and the steps of the pipeline.
FairnessUnticked ==
  /\ WF_vars(AddJobReturn)
  /\ WF_vars(Immediate)
  /\ \A s \in Slots : WF_vars(Pipeline(s))

\* As many jobs as Solo has, and selections enough for each of them to use
\* up its attempts.
Draining == [Solo EXCEPT !.selects = SoloJobs * retryAttempts]
InitDraining == InitIn(Draining)
SpecDraining == InitDraining /\ [][NextCore]_vars /\ Fairness

\* One job that may time out, none selected while an execution that the
\* timeout abandoned still runs; timers that are due fire.
TimedOut == [jobs |-> maxConcurrentJobs, selects |-> retryAttempts, overlaps |-> 0,
             priority |-> 0, faults |-> FALSE, lines |-> 0]
InitTimedOut == InitIn(TimedOut)
SpecTimedOut ==
  InitTimedOut /\ [][NextTimeout]_vars /\ Fairness /\ WF_vars(RetryTimer)

SpecSaturated == InitDraining /\ [][NextCore]_vars /\ FairnessUnticked

\* A stream of at most MaxLines lines is processed with a batch size of at
\* most MaxBatchSize.
InitStream == Constructed(Solo) /\ \E n \in 1..MaxBatchSize : StreamInit(n)
SpecStream == InitStream /\ [][NextStream]_vars

\* As many jobs as may run at a time, selected until the attempts are used
\* up, each execution streaming an input of at most PipedLines lines with a
\* batch size of at most PipedBatch.
Piped == [jobs |-> maxConcurrentJobs, selects |-> retryAttempts, overlaps |-> 0,
          priority |-> 0, faults |-> FALSE, lines |-> PipedLines]
InitPiped == InitIn(Piped)
SpecPiped == InitPiped /\ [][NextPiped]_vars

\* At most MaxSaves batches are persisted.
SpecSave == InitSolo /\ [][NextSave]_vars

\* ------------------------------------------------------------- properties
Terminal == {"completed", "failed"}
Executing == {inv[s].job : s \in {t \in Slots : inv[t].ex # "none"}}
Processing == {j \in JobIds : jobs[j].status = "processing"}

\* C1: the number of jobs whose execution is in progress never exceeds
\* maxConcurrentJobs, and no more than maxConcurrentJobs (one) jobs are in
\* persisted status 'processing' at the same time.
C1_Ceiling ==
  /\ Cardinality(Executing) <= maxConcurrentJobs
  /\ Cardinality(Processing) <= maxConcurrentJobs

RetrySequence == << "pending", "processing", "pending", "processing", "pending",
                    "processing", "failed" >>
IsPrefix(a, b) == Len(a) <= Len(b) /\ \A n \in 1..Len(a) : a[n] = b[n]
\* Every attempt on job j so far was settled by a failure of the pipeline, and
\* no pipeline run on it has succeeded.
AlwaysFailed(j) ==
  /\ \A n \in 1..Len(outs[j]) : outs[j][n] = "fail"
  /\ \A s \in Slots : inv[s].job = j => inv[s].ex \notin {"resolved", "jobSave", "jobSaved"}

\* C2: a job whose pipeline has failed on every attempt goes through the
\* statuses pending, processing, pending, processing, pending, processing,
\* failed in this order, is executed at most three times, and when it is failed
\* it has attempts = 3 after exactly three executions.
C2_RetrySequence ==
  \A j \in JobIds :
    AlwaysFailed(j) =>
      /\ IsPrefix(hist[j], RetrySequence)
      /\ execs[j] <= 3
      /\ jobs[j].status = "failed" =>
           hist[j] = RetrySequence /\ jobs[j].attempts = 3 /\ execs[j] = 3

\* The first attempt on job j failed, the second one, made after it, succeeded.
FailedThenSucceeded(j) ==
  /\ outs[j] = << "fail", "ok" >>
  /\ hist[j] = << "pending", "processing", "pending", "processing", "completed" >>
  /\ jobs[j].status = "completed"

\* C3 as stated: a job whose pipeline failed on the first attempt and
\* succeeded on the second is completed with attempts = 2.
C3_AttemptsTwo ==
  \A j \in JobIds : FailedThenSucceeded(j) => jobs[j].attempts = 2

\* C3: a job whose pipeline failed on the first attempt and succeeded on the
\* second is completed with attempts = 1, the number of its failed attempts.
C3_AttemptsCountFailures ==
  \A j \in JobIds : FailedThenSucceeded(j) => jobs[j].attempts = 1

C3_Witness == \E j \in JobIds : FailedThenSucceeded(j)

\* C4: a job in status completed or failed carries exactly one of a
\* populated result and a populated error.
C4_ResultXorError ==
  \A j \in JobIds :
    jobs[j].status \in Terminal => (jobs[j].result # (jobs[j].error # "none"))

\* C5: once the persisted status of a job is completed or failed, no step
\* changes it.
C5_Terminal ==
  [][\A j \in JobIds : jobs[j].status \in Terminal => jobs'[j].status = jobs[j].status]_vars

\* C6: every stored job has attempts <= maxAttempts.
C6_AttemptsBounded ==
  \A j \in JobIds : jobs[j].status # "none" => jobs[j].attempts <= maxAttempts(j)

\* C7: the job a processNext invocation selects is pending, no pending job
\* has a higher priority, and no pending job of the same priority was
\* created earlier, in the state in which the selection is made.
C7_SelectionOrder ==
  [][\A s \in Slots :
       (inv[s].pn = "find" /\ inv'[s].pn = "mark") =>
         LET j == inv'[s].job
         IN /\ jobs[j].status = "pending"
            /\ \A k \in JobIds \ {j} :
                 jobs[k].status = "pending" =>
                   \/ jobs[k].priority < jobs[j].priority
                   \/ /\ jobs[k].priority = jobs[j].priority
                      /\ jobs[j].createdAt <= jobs[k].createdAt]_vars

\* A job has been selected while an older job of lower priority is pending.
C7_Witness ==
  \E s \in Slots :
    /\ inv[s].pn = "mark"
    /\ \E k \in JobIds :
         /\ jobs[k].status = "pending"
         /\ jobs[k].createdAt < jobs[inv[s].job].createdAt
         /\ jobs[k].priority < jobs[inv[s].job].priority

\* C8: an addJob call made in degraded mode is rejected with the 503 error
\* and stores nothing; a call made otherwise issues the save, and when the
\* store accepts it exactly one document is added, pending with attempts 0,
\* and the call returns the descriptor with status pending having only
\* started processNext.
C8_AddJob ==
  [][/\ (add.pc = "idle" /\ add'.pc # "idle") =>
          /\ add'.pc = IF degradedMode THEN "rejected" ELSE "save"
          /\ jobs' = jobs
     /\ (add.pc = "rejected" /\ add' # add) =>
          /\ lastRet' = Unavailable503
          /\ jobs' = jobs
     /\ (add.pc = "save" /\ add'.pc = "saved") =>
          /\ jobs[add.id].status = "none"
          /\ jobs'[add.id].status = "pending"
          /\ jobs'[add.id].attempts = 0
          /\ jobs'[add.id].fileId = add.fileId
          /\ jobs'[add.id].priority = add.priority
          /\ \A k \in JobIds \ {add.id} : jobs'[k] = jobs[k]
     /\ (add.pc = "saved" /\ add' # add) =>
          /\ lastRet' = [kind |-> "ok", jobId |-> add.id, fileId |-> add.fileId,
                         status |-> "pending"]
          /\ jobs' = jobs
          /\ execs' = execs
          /\ \A s \in Slots : inv'[s] # inv[s] => inv'[s].pn = "find" /\ inv'[s].ex = "none"]_vars

\* A call is being rejected in degraded mode while a job that an earlier call
\* stored and returned is still pending and has not been executed.
C8_Witness ==
  /\ add.pc = "rejected"
  /\ \E j \in JobIds : jobs[j].status = "pending" /\ execs[j] = 0

\* The errors by which the store reports an exhausted quota.
QuotaErrors == {QuotaByCode, QuotaByMessage}

\* C9: when the save of addJob fails with a quota error, addJob rejects with
\* the 503 error and leaves the queue in degraded mode, which getStats reports;
\* whenever the last answer of addJob is the 503 error the queue is in
\* degraded mode, and a call made in degraded mode is rejected with that error
\* without reaching the store.
C9_QuotaDegrades ==
  /\ [](lastRet = Unavailable503 => getStats.degradedMode)
  /\ [][/\ (add.pc = "failed" /\ add.err \in QuotaErrors /\ add' # add) =>
             /\ lastRet' = Unavailable503
             /\ degradedMode'
             /\ getStats'.degradedMode
        /\ (degradedMode /\ add.pc = "idle" /\ add' # add) => add'.pc = "rejected"
        /\ (add.pc = "rejected" /\ add' # add) =>
             lastRet' = Unavailable503 /\ add'.pc = "idle"]_vars

\* addJob has answered with the 503 error in a queue that had stored a job
\* before, so that degraded mode was entered by a failed save of addJob.
C9_Witness ==
  /\ lastRet = Unavailable503
  /\ degradedMode
  /\ \E j \in JobIds : jobs[j].status # "none"

\* C10: no step of the queue sets degradedMode back to FALSE.
C10_Sticky == [][degradedMode => degradedMode']_vars

\* Degraded mode has outlasted the end of a job and a complete shutdown.
C10_Witness ==
  /\ degradedMode
  /\ sd = "done"
  /\ \E j \in JobIds : jobs[j].status \in Terminal

\* C11 as stated: initialize changes a job it found in status processing only
\* to failed with the restart message and completedAt, and when it returns no
\* job is in status processing.
C11_NoneLeftProcessing ==
  [][/\ \A j \in JobIds :
          (phase \in {"constructed", "initializing"} /\ jobs[j].status = "processing") =>
            \/ jobs'[j] = jobs[j]
            \/ /\ jobs'[j].status = "failed"
               /\ jobs'[j].error = RestartMessage
               /\ jobs'[j].completedAt
     /\ (phase \in {"constructed", "initializing"} /\ phase' = "running") => Stuck' = {}]_vars

\* C11: initialize changes a job it found in status processing only to failed
\* with the restart message and completedAt, and when it returns the jobs in
\* status processing are those whose save the store refused for quota (all of
\* them when the find itself was refused for quota).
C11_StuckFinalized ==
  [][/\ \A j \in JobIds :
          (phase \in {"constructed", "initializing"} /\ jobs[j].status = "processing") =>
            \/ jobs'[j] = jobs[j]
            \/ /\ jobs'[j].status = "failed"
               /\ jobs'[j].error = RestartMessage
               /\ jobs'[j].completedAt
     /\ (phase \in {"constructed", "initializing"} /\ phase' = "running") =>
          Stuck' = skipped']_vars

\* initialize has returned having marked a stuck job failed.
C11_Witness ==
  /\ phase = "running"
  /\ skipped = {}
  /\ \E j \in JobIds : jobs[j].status = "failed" /\ jobs[j].error = RestartMessage

\* C12: once shutdown() has been called no job goes from status pending to
\* status processing.
C12_NoAdmissionAfterShutdown ==
  [][sd # "none" =>
       \A j \in JobIds :
         ~(jobs[j].status = "pending" /\ jobs'[j].status = "processing")]_vars

\* C13: when shutdown() returns, the active set is empty and every job that
\* was active when the grace period expired has status pending; and once
\* shutdown has reset such a job, the save of an execution of it that is
\* still running does not change that status.
C13_ShutdownResets ==
  [][/\ (sd # "done" /\ sd' = "done") =>
          /\ activeJobs' = << >>
          /\ \A j \in sdActive' : jobs'[j].status = "pending"
     /\ \A s \in Slots :
          (/\ sd \in {"resetAck", "done"}
           /\ inv[s].job \in sdActive
           /\ jobs[inv[s].job].status = "pending"
           /\ \/ inv[s].ex = "jobSave" /\ inv'[s].ex = "jobSaved"
              \/ inv[s].pn = "errSave" /\ inv'[s].pn = "errSaved")
          => jobs'[inv[s].job].status = "pending"]_vars

\* C14: once the timeout of an execution has been handled (the job saved
\* pending or failed and processNext gone through its finally block), the
\* save by which the abandoned execution completes changes neither status nor
\* result nor completedAt of the job.
C14_LoserIgnored ==
  [][\A s \in Slots :
       (/\ inv[s].pn = "gone"
        /\ jobs[inv[s].job].status \in {"pending", "failed"}
        /\ inv[s].ex = "jobSave" /\ inv'[s].ex = "jobSaved") =>
         /\ jobs'[inv[s].job].status = jobs[inv[s].job].status
         /\ jobs'[inv[s].job].result = jobs[inv[s].job].result
         /\ jobs'[inv[s].job].completedAt = jobs[inv[s].job].completedAt]_vars

\* C15: the save by which handleJobError marks a job failed, attempts having
\* reached maxAttempts, stores completedAt and an error with it, and when
\* handleJobError returns after it the file of the job has status failed.
C15_TerminalFailure ==
  [][\A s \in Slots :
       LET j == inv[s].job
       IN /\ (inv[s].pn = "errSave" /\ inv'[s].pn = "errSaved"
               /\ inv[s].att >= maxAttempts(j)) =>
                 /\ jobs'[j].status = "failed"
                 /\ jobs'[j].completedAt
                 /\ jobs'[j].error # "none"
          /\ (inv[s].pn = "errSaved" /\ inv'[s].pn # "errSaved"
               /\ inv[s].att >= maxAttempts(j) /\ jobs[j].status = "failed") =>
                 files'[jobs[j].fileId] = "failed"]_vars

\* The order of the file statuses: uploaded, then processing, then processed
\* or failed.
FileRank(st) == IF st = "uploaded" THEN 0 ELSE IF st = "processing" THEN 1 ELSE 2

\* C16: the status of a file only moves forward along uploaded, processing,
\* {processed, failed}: no step takes it to a status of lower rank, nor from
\* processed to failed or from failed to processed.
C16_FileMonotonic ==
  [][\A f \in FileIds :
       /\ FileRank(files'[f]) >= FileRank(files[f])
       /\ FileRank(files[f]) = 2 => files'[f] = files[f]]_vars

\* The executions whose processStream is reading file f.
Streaming(f) == {s \in Slots : inv[s].ex = "stream" /\ FileOf(s) = f}

\* C17: at most one execution is streaming a given file at any time.
C17_OneStreamPerFile ==
  \A f \in FileIds : Cardinality(Streaming(f)) <= 1

\* C18: the counts processStream resolves with add up to the number of
\* non-blank lines of the input.
C18_CountsAddUp ==
  result.state = "resolved" => result.processed + result.failed = nonBlank

Range(q) == {q[n] : n \in 1..Len(q)}
\* The records that are in `batch` or have been handed to the sink.
Batched == Range(batch) \cup UNION {Range(handed[n]) : n \in 1..Len(handed)}

\* C19: when the sink rejects a batch of k records, failedCount grows by k,
\* processedCount stays, one batch_error entry for k records is appended to
\* errors, the promise of processStream is not rejected, the records waiting
\* in `batch` stay there, and a 'line' handler that awaited the flush resumes
\* the input; and every record the parser has returned is in `batch` or has
\* been handed to the sink.
C19_SinkFailure ==
  /\ [](parsed = Batched)
  /\ [][\A fl \in flushes \ flushes' :
          fl.batch \in rejected' \ rejected =>
            /\ failedCount' = failedCount + Len(fl.batch)
            /\ processedCount' = processedCount
            /\ errors' = Append(errors, BatchError(Len(fl.batch)))
            /\ batch' = batch
            /\ result'.state \in {"pending", "resolved"}
            /\ fl.by = "line" => ~rlPaused']_vars

\* The sink has rejected a batch, and a batch of later lines has been handed
\* to it and accepted; the stream has been processed to its end.
C19_Witness ==
  /\ result.state = "resolved"
  /\ \E m, n \in 1..Len(handed) :
       /\ m < n
       /\ handed[m] \in rejected
       /\ handed[n] \notin rejected
       /\ \A fl \in flushes : fl.batch # handed[n]

\* The number of records in `batch` and in the batches being flushed.
Held == Len(batch) + Cardinality(UNION {Range(fl.batch) : fl \in flushes})

\* C20: at most one flush is in flight, the records held never exceed
\* batchSize, and while a flush is in flight no line is taken in and no batch
\* is started or flushed.
C20_FlushExclusive ==
  /\ [](Cardinality(flushes) <= 1 /\ Held <= batchSize)
  /\ [][flushes # {} => (lineNumber' = lineNumber /\ batch' = batch)]_vars

\* C21: when the promise of processStream resolves, no record is left in
\* `batch`, no sink call is in flight, and every record the parser returned
\* has been handed to the sink.
C21_AllFlushed ==
  [][(result.state = "pending" /\ result'.state = "resolved") =>
       /\ batch' = << >>
       /\ flushes' = {}
       /\ parsed' = UNION {Range(handed'[n]) : n \in 1..Len(handed')}]_vars

\* The records that failed: the lines the parser threw on and the records of
\* the batches the sink rejected.
FailedRecords ==
  (nonBlank - Cardinality(parsed)) + Cardinality(UNION {Range(b) : b \in rejected})

\* C22: the result of processStream lists at most 100 errors, and its failed
\* count is the number of records that failed.
C22_ErrorsCapped ==
  result.state = "resolved" =>
    /\ result.errors <= errorLimit
    /\ result.failed = FailedRecords

\* C23: however often a batch is saved, the store holds at most one document
\* per (fileId, lineNumber), and no saveBatch call fails.
C23_SaveIdempotent ==
  /\ \A f \in FileIds : \A n \in 1..MaxLines : fileData[f][n] <= 1
  /\ lastSave # "threw"

\* The lines lo..hi in order.
LinesFrom(lo, hi) == [i \in 1..(hi - lo + 1) |-> lo + i - 1]
Min(a, b) == IF a < b THEN a ELSE b

\* C24: when processStream has resolved for n lines that all parsed, the
\* idle timer never flushed and the sink rejected nothing, the sink was
\* called ceil(n/b) times with the lines in order, b per batch except the
\* last, and the result is {processed: n, failed: 0}.
C24_FullBatches ==
  (/\ result.state = "resolved"
   /\ idleFlushes = 0
   /\ rejected = {}
   /\ Cardinality(parsed) = lineNumber) =>
    /\ Len(handed) = (lineNumber + batchSize - 1) \div batchSize
    /\ \A i \in 1..Len(handed) :
         handed[i] = LinesFrom((i - 1) * batchSize + 1, Min(i * batchSize, lineNumber))
    /\ result.processed = lineNumber
    /\ result.failed = 0

\* C25: when processStream has resolved for lines of which exactly one
\* failed to parse, and the sink rejected nothing, the result counts every
\* other non-blank line as processed, one line as failed, and lists one
\* error, which names the line that failed to parse.
C25_OneBadLine ==
  (/\ result.state = "resolved"
   /\ rejected = {}
   /\ nonBlank - Cardinality(parsed) = 1) =>
    /\ result.processed = nonBlank - 1
    /\ result.failed = 1
    /\ result.errors = 1
    /\ Len(errors) = 1
    /\ errors[1].type = "parse_error"
    /\ errors[1].line \in (1..lineNumber) \ parsed

\* The messages of the store errors that isQuotaError takes for quota
\* exhaustion.
QuotaMessages == {o.message : o \in {e \in StoreErrors : isQuotaError(e)}}

\* C26: when the job.save() of handleJobError is applied for an execution
\* that a quota error of the store ended, the stored attempts of the job stay
\* as they were and the queue is in degraded mode.
C26_QuotaNotCounted ==
  [][\A s \in Slots :
       (/\ inv[s].pn = "errSave"
        /\ inv[s].err \in QuotaMessages
        /\ inv'[s].pn = "errSaved") =>
         /\ jobs'[inv[s].job].attempts = jobs[inv[s].job].attempts
         /\ degradedMode']_vars

\* C27: a job whose failure has just been stored with status pending is not
\* among the jobs processNext may select: a delay has to pass first.
C27_RetryDelayed ==
  [][\A j \in JobIds :
       (/\ jobs[j].status = "processing"
        /\ jobs'[j].status = "pending"
        /\ jobs'[j].attempts > jobs[j].attempts) =>
         j \notin Pending']_vars

\* C28: when initialize returns normally after the store refused, for quota,
\* the query for stuck jobs or the save of a stuck job, the queue is in
\* degraded mode and the timer that starts the control loop is armed.
C28_QuotaDegrades ==
  [][(/\ phase \in {"constructed", "initializing"}
      /\ phase' = "running"
      /\ skipped' # {}) =>
       (degradedMode' /\ startTimer')]_vars

\* C29: every job that was pending when degraded mode began is eventually
\* completed or failed.
C29_PendingDrains ==
  \A j \in JobIds : (j \in pendingAtDegrade) ~> (jobs[j].status \in Terminal)

\* A job that was pending when degraded mode began has been executed, in
\* degraded mode, to a terminal state.
C29_Witness ==
  /\ degradedMode
  /\ \E j \in pendingAtDegrade : jobs[j].status \in Terminal

\* The job.save() of handleJobError is applied for an execution of slot s
\* that ended with the error msg.
FailureStored(s, msg) ==
  inv[s].pn = "errSave" /\ inv'[s].pn = "errSaved" /\ inv[s].err = msg

\* C30: when the failure of an execution that timed out while streaming is
\* stored, the file of the job is in status failed, as it is when the
\* failure of an execution whose stream failed to read is stored.
C30_TimeoutLikeStreamFailure ==
  [][\A s \in Slots :
       (FailureStored(s, "Job timeout") /\ inv[s].ex = "stream") =>
         files'[FileOf(s)] = "failed"]_vars

\* C31: the idle timer is set anew only by a step that starts or ends a
\* flush, so that a pending batch is flushed one timeout after the last
\* flush however the lines arrive, and no timer is armed once processStream
\* has settled.
C31_TimerRestartedByFlush ==
  [][/\ (batchTimer /\ batchTimer' /\ armedAt' # armedAt) =>
          (handed' # handed \/ flushes' # flushes)
     /\ (result'.state # "pending") => ~batchTimer']_vars

\* The 1-based position in the input of the line being handled.
Position == delivered - chunk + 1

\* The records handed to the sink, batch after batch, carry strictly
\* increasing line numbers.
HandedIncreasing ==
  \A i \in 1..Len(handed) : \A j \in i..Len(handed) :
    \A k \in 1..Len(handed[i]) : \A l \in 1..Len(handed[j]) :
      (i < j \/ k < l) => handed[i][k] < handed[j][l]

\* The 'line' handler has run for one more line.
LineHandled == chunk' = chunk - 1
BlankHandled == LineHandled /\ nonBlank' = nonBlank

\* C33: a blank line changes no count, no record and no error entry, yet
\* it advances the line counter; a record or a parse-error entry carries the
\* position in the input of the line it comes from; and the records handed to
\* the sink carry strictly increasing line numbers.
C33_LineNumbers ==
  /\ []HandedIncreasing
  /\ [][/\ LineHandled => lineNumber' = Position
        /\ BlankHandled =>
             /\ parsed' = parsed /\ batch' = batch /\ handed' = handed
             /\ errors' = errors
             /\ processedCount' = processedCount /\ failedCount' = failedCount
        /\ (LineHandled /\ parsed' # parsed) => parsed' = parsed \cup {Position}
        /\ (LineHandled /\ errors' # errors) =>
             errors' = Append(errors, ParseError(Position))]_vars

\* A record that follows a blank line has been handed to the sink under its
\* position in the input.
C33_Witness ==
  /\ handed # << >>
  /\ lineNumber > nonBlank
  /\ chunk = 0
  /\ \E n \in 1..Len(handed) : \E k \in 1..Len(handed[n]) :
       handed[n][k] = delivered /\ Cardinality(parsed) < delivered

\* processFile of slot s learns that processStream has rejected.
StreamFailureSeen(s) ==
  inv[s].ex = "stream" /\ reader = s /\ result.state = "rejected" /\ reader' = 0

\* C32: the step that rejects processStream for a read error hands nothing
\* to the sink and leaves no timer armed, and nothing is handed to the sink
\* afterwards; the batches the sink accepted stay accepted; processFile then
\* stores the file as failed and handleJobError counts one attempt, which is
\* stored with the job.
C32_ReadErrorAborts ==
  /\ [][(result'.state = "rejected") =>
          /\ handed' = handed
          /\ batch' = batch
          /\ ~batchTimer'
          /\ accepted \subseteq accepted']_vars
  /\ [][\A s \in Slots : StreamFailureSeen(s) =>
          /\ files'[FileOf(s)] = "failed"
          /\ inv'[s].att = inv[s].att + 1
          /\ inv'[s].err = "stream read error"]_vars
  /\ [][\A s \in Slots :
          FailureStored(s, "stream read error") =>
            jobs'[inv[s].job].attempts = jobs[inv[s].job].attempts + 1]_vars

\* A stream failed to read after one batch had been accepted and with
\* another pending; the file is failed and the job has one attempt stored.
C32_Witness ==
  /\ result.state = "rejected"
  /\ batch # << >>
  /\ accepted # {}
  /\ \E j \in JobIds :
       /\ jobs[j].status = "pending"
       /\ jobs[j].attempts = 1
       /\ jobs[j].error = "stream read error"
       /\ files[jobs[j].fileId] = "failed"

\* processFile of slot s learns that processStream has resolved.
StreamResultSeen(s) ==
  inv[s].ex = "stream" /\ reader = s /\ result.state = "resolved" /\ reader' = 0

\* processFile of slot s has returned and executeJob has not yet resolved.
Returned(s) == inv[s].ex \in {"resolved", "jobSave", "jobSaved"}

\* C34: when processStream has resolved, whatever its counts, processFile
\* stores the file as processed with processedAt set and returns the counts;
\* the execution then counts no attempt, and its job is stored as completed
\* with those counts as its result.
C34_FailuresAbsorbed ==
  /\ [][\A s \in Slots : StreamResultSeen(s) =>
          /\ files'[FileOf(s)] = "processed"
          /\ processedAt'[FileOf(s)]
          /\ Returned(s)'
          /\ returned'[s] = result]_vars
  /\ [][\A s \in Slots : Returned(s) =>
          /\ jobs'[inv[s].job].attempts = jobs[inv[s].job].attempts
          /\ \/ Returned(s)' /\ inv'[s].att = inv[s].att /\ inv'[s].err = inv[s].err
             \/ jobs'[inv[s].job].status = "completed" /\ inv'[s] = IdleInv]_vars
  /\ [][\A j \in JobIds :
          (jobs[j].status # "completed" /\ jobs'[j].status = "completed") =>
            \E s \in Slots : /\ inv[s].job = j
                             /\ returned[s].state = "resolved"
                             /\ jobResult'[j] = returned[s]]_vars

\* A job is completed with the result {processed: 0, failed > 0} of a
\* stream every batch of which the sink rejected.
C34_Witness ==
  \E j \in JobIds :
    /\ jobs[j].status = "completed"
    /\ jobResult[j].state = "resolved"
    /\ jobResult[j].processed = 0
    /\ jobResult[j].failed > 0
    /\ rejected # {}
    /\ accepted = {}
    /\ files[jobs[j].fileId] = "processed"
    /\ processedAt[jobs[j].fileId]

\* C35: every job admitted eventually reaches completed or failed, the
\* periodic tick not being relied on; and the step that frees a slot
\* schedules a call of processNext with setImmediate.
C35_Saturated ==
  /\ \A j \in JobIds : (jobs[j].status \in {"pending", "processing"}) ~>
                          (jobs[j].status \in Terminal)
  /\ [][Len(activeJobs') < Len(activeJobs) => immediates' = immediates + 1]_vars

\* A job that failed and was selected again by the call the freed slot
\* scheduled, the control loop never having started, has reached a terminal
\* state.
C35_Witness ==
  /\ ~processing
  /\ \E j \in JobIds : jobs[j].status \in Terminal /\ execs[j] >= 2

\* The processNext invocation of slot s holds a job: it awaits the race or
\* handleJobError.
Holding(s) == inv[s].pn \in {"race", "errFile", "errFileAck", "errSave", "errSaved"}

\* C36: when a processNext invocation that holds a job ends, whether the
\* pipeline succeeded, failed or timed out and whether or not handleJobError
\* threw, the job is no longer in activeJobs; and no job stays in activeJobs
\* for ever.
C36_SlotReleased ==
  /\ [][\A s \in Slots : (Holding(s) /\ ~Holding(s)') =>
          ~InMap(activeJobs', inv[s].job)]_vars
  /\ \A j \in JobIds : InMap(activeJobs, j) ~> ~InMap(activeJobs, j)

\* handleJobError has thrown (the outer catch block of processNext armed its
\* timer) and activeJobs is empty.
C36_Witness ==
  /\ retryTimers > 0
  /\ activeJobs = << >>
  /\ \E j \in JobIds : execs[j] >= 1

\* The processNext invocation of slot s has selected a job and not yet ended.
Selected(s) == inv[s].pn = "mark" \/ inv[s].pn = "marked" \/ Holding(s)

\* C37: no two processNext invocations have the same job selected, marked or
\* running at the same time.
C37_OneInvocationPerJob ==
  \A s \in Slots : \A t \in Slots \ {s} :
    (Selected(s) /\ Selected(t)) => inv[s].job # inv[t].job

\* The executions of job j that ended in failure or timeout.
Failures(j) == Len(SelectSeq(outs[j], LAMBDA o : o # "ok"))

\* C38: while no processNext invocation and no execution is working on job j,
\* its stored attempts are the number of its executions that ended in failure
\* or timeout.
C38_AttemptsCountFailures ==
  \A j \in JobIds :
    (jobs[j].status # "none" /\ \A s \in Slots : inv[s].job # j) =>
      jobs[j].attempts = Failures(j)

\* The step in which the store applies the File.updateOne of a terminal
\* failure handled by invocation s.
TerminalFailure(s) == inv[s].pn = "errFile" /\ inv'[s].pn = "errFileAck"

\* C39: the terminal failure of one job leaves the status of its file as it is
\* while an execution of another job is streaming that file.
C39_StreamedFileKept ==
  [][\A s \in Slots :
       (TerminalFailure(s) /\ \E t \in Streaming(FileOf(s)) : inv[t].job # inv[s].job) =>
         files'[FileOf(s)] = files[FileOf(s)]]_vars

\* An execution of a job on file f has been started and has not returned.
ExecutingFile(f) == {s \in Slots : inv[s].job # 0 /\ inv[s].ex # "none" /\ FileOf(s) = f}

\* C40: while the queue is running (initialize has returned, the database was
\* reachable), a file stored as processing has a pipeline execution in progress.
C40_ProcessingIsExecuted ==
  \A f \in FileIds :
    (phase = "running" /\ ~degradedMode /\ files[f] = "processing") =>
      ExecutingFile(f) # {}

====
